---- MODULE Spec2Model ----
(***************************************************************************)
(* The Catty IRI registry (scripts/iri-config.py): the restricted YAML     *)
(* parser/serializer, the ontology registry held by IRIConfig instances    *)
(* over one shared config file, the rebinder and the fabrication scanner.  *)
(*                                                                         *)
(* Strings are TLA+ strings handled character by character (Len, SubSeq,   *)
(* \o).  A text file is the sequence of its lines.  A Python dict is the   *)
(* sequence of its <<key, value>> pairs in insertion order.  A value is a  *)
(* record [t |-> tag, s |-> string, m |-> pairs/items]:                    *)
(*   t = "s"  string scalar s          t = "m"  mapping/object m           *)
(*   t = "l"  JSON array m             t = "n"  non-string JSON scalar s   *)
(***************************************************************************)
EXTENDS Integers, Sequences, FiniteSets, TLC

-----------------------------------------------------------------------------
(* Python str primitives *)

Str(x) == [t |-> "s", s |-> x, m |-> << >>]
Map(pairs) == [t |-> "m", s |-> "", m |-> pairs]
List(items) == [t |-> "l", s |-> "", m |-> items]
Scalar(x) == [t |-> "n", s |-> x, m |-> << >>]

IsStr(v) == v.t = "s"
IsMap(v) == v.t = "m"
IsList(v) == v.t = "l"

CharAt(str, i) == SubSeq(str, i, i)

StartsWith(str, pre) ==
    /\ Len(pre) <= Len(str)
    /\ SubSeq(str, 1, Len(pre)) = pre

EndsWith(str, suf) ==
    /\ Len(suf) <= Len(str)
    /\ SubSeq(str, Len(str) - Len(suf) + 1, Len(str)) = suf

\* str.find(sub, i): the first index >= i (1-based) where sub occurs, 0 if none
Find(str, sub, i) ==
    LET hits == {j \in i..(Len(str) - Len(sub) + 1) :
                   SubSeq(str, j, j + Len(sub) - 1) = sub}
    IN IF hits = {} THEN 0
       ELSE CHOOSE j \in hits : \A k \in hits : j <= k

Contains(str, sub) == Find(str, sub, 1) > 0

\* str.replace(src, dst) for a non-empty src: non-overlapping occurrences,
\* scanned left to right, the scan resuming after each replaced occurrence
RECURSIVE Replace(_, _, _)
Replace(str, src, dst) ==
    LET i == Find(str, src, 1)
    IN IF src = "" \/ i = 0 THEN str
       ELSE SubSeq(str, 1, i - 1) \o dst
            \o Replace(SubSeq(str, i + Len(src), Len(str)), src, dst)

IsSpace(ch) == ch \in {" ", "\t", "\n", "\r", "\f"}

HasSpace(str) == \E i \in 1..Len(str) : IsSpace(CharAt(str, i))

RECURSIVE LStrip(_)
LStrip(str) ==
    IF str /= "" /\ IsSpace(CharAt(str, 1)) THEN LStrip(SubSeq(str, 2, Len(str)))
    ELSE str

RECURSIVE RStrip(_)
RStrip(str) ==
    IF str /= "" /\ IsSpace(CharAt(str, Len(str))) THEN RStrip(SubSeq(str, 1, Len(str) - 1))
    ELSE str

Strip(str) == LStrip(RStrip(str))

\* line.lstrip(" "): only the space character
RECURSIVE LStripBlank(_)
LStripBlank(str) ==
    IF str /= "" /\ CharAt(str, 1) = " " THEN LStripBlank(SubSeq(str, 2, Len(str)))
    ELSE str

\* str.rstrip("/")
RECURSIVE RStripSlash(_)
RStripSlash(str) ==
    IF str /= "" /\ CharAt(str, Len(str)) = "/" THEN RStripSlash(SubSeq(str, 1, Len(str) - 1))
    ELSE str

\* " " * n
RECURSIVE Pad(_)
Pad(n) == IF n <= 0 THEN "" ELSE " " \o Pad(n - 1)

-----------------------------------------------------------------------------
(* Python dict primitives on insertion-ordered pair sequences *)

Keys(pairs) == {pairs[i][1] : i \in 1..Len(pairs)}

KeySeq(pairs) == [i \in 1..Len(pairs) |-> pairs[i][1]]

HasKey(pairs, k) == k \in Keys(pairs)

IndexOfKey(pairs, k) == CHOOSE i \in 1..Len(pairs) : pairs[i][1] = k

\* d[k] for a key that is present
Get(pairs, k) == pairs[IndexOfKey(pairs, k)][2]

\* d[k] = v: an existing key keeps its position, a new key goes last
Put(pairs, k, v) ==
    IF HasKey(pairs, k)
    THEN [pairs EXCEPT ![IndexOfKey(pairs, k)] = <<k, v>>]
    ELSE Append(pairs, <<k, v>>)

\* the mapping at a path of keys below root, and root with d[k] = v done there
RECURSIVE GetPath(_, _)
GetPath(pairs, path) ==
    IF path = << >> THEN pairs
    ELSE GetPath(Get(pairs, Head(path)).m, Tail(path))

RECURSIVE PutPath(_, _, _, _)
PutPath(pairs, path, k, v) ==
    IF path = << >> THEN Put(pairs, k, v)
    ELSE Put(pairs, Head(path),
             Map(PutPath(Get(pairs, Head(path)).m, Tail(path), k, v)))

-----------------------------------------------------------------------------
(* Restricted YAML parser / serializer *)

YamlStripQuotes(value0) ==
    LET value == Strip(value0)
    IN IF \/ (StartsWith(value, "\"") /\ EndsWith(value, "\""))
          \/ (StartsWith(value, "'") /\ EndsWith(value, "'"))
       THEN SubSeq(value, 2, Len(value) - 1)
       ELSE value

\* the while loop of the parser: pop every level deeper than the line
RECURSIVE PopStack(_, _)
PopStack(stack, indent) ==
    IF stack /= << >> /\ indent < stack[Len(stack)].indent
    THEN PopStack(SubSeq(stack, 1, Len(stack) - 1), indent)
    ELSE stack

\* one iteration of the parser's loop over the lines; st.err /= "" once it raised
YamlLine(st, line) ==
    IF st.err /= "" THEN st
    ELSE IF Strip(line) = "" \/ StartsWith(LStrip(line), "#") THEN st
    ELSE
      LET indent == Len(line) - Len(LStripBlank(line))
          stack  == PopStack(st.stack, indent)
      IN IF indent % 2 /= 0
         THEN [st EXCEPT !.err = "Unsupported YAML indentation (expected 2 spaces)"]
         ELSE IF stack = << >>
         THEN [st EXCEPT !.err = "Malformed YAML near line"]
         ELSE IF ~Contains(line, ":")
         THEN [st EXCEPT !.err = "Malformed YAML line (missing ':')"]
         ELSE
           LET body  == LStrip(line)
               colon == Find(body, ":", 1)
               key   == Strip(SubSeq(body, 1, colon - 1))
               value == Strip(SubSeq(body, colon + 1, Len(body)))
               path  == stack[Len(stack)].path
           IN IF value = ""
              THEN [err   |-> "",
                    root  |-> PutPath(st.root, path, key, Map(<< >>)),
                    stack |-> Append(stack, [indent |-> indent + 2,
                                             path   |-> Append(path, key)])]
              ELSE [err   |-> "",
                    root  |-> PutPath(st.root, path, key, Str(YamlStripQuotes(value))),
                    stack |-> stack]

RECURSIVE YamlLines(_, _)
YamlLines(st, lines) ==
    IF lines = << >> THEN st
    ELSE YamlLines(YamlLine(st, Head(lines)), Tail(lines))

\* _load_simple_yaml_mapping: [err |-> "" and root |-> the mapping] or the error
LoadSimpleYamlMapping(lines) ==
    YamlLines([err |-> "", root |-> << >>,
               stack |-> << [indent |-> 0, path |-> << >>] >>], lines)

\* _dump_simple_yaml_mapping, as the lines of the joined text
RECURSIVE DumpSimpleYamlMapping(_, _)
DumpSimpleYamlMapping(data, indent) ==
    LET RECURSIVE Items(_)
        Items(i) ==
          IF i > Len(data) THEN << >>
          ELSE
            LET key   == data[i][1]
                value == data[i][2]
                s     == value.s
                q     == IF HasSpace(s) \/ Contains(s, ":") \/ Contains(s, "#")
                         THEN "\"" \o Replace(s, "\"", "\\\"") \o "\""
                         ELSE s
            IN (IF IsMap(value)
                THEN <<Pad(indent) \o key \o ":">>
                     \o DumpSimpleYamlMapping(value.m, indent + 2)
                ELSE <<Pad(indent) \o key \o ": " \o q>>)
               \o Items(i + 1)
    IN IF data = << >> THEN <<"">> ELSE Items(1)

-----------------------------------------------------------------------------
(* Ordering of strings: sorted() compares code points (printable ASCII
   without the backquote, which no modelled string contains) *)

Ascii == " !\"#$%&'()*+,-./0123456789:;<=>?@ABCDEFGHIJKLMNOPQRSTUVWXYZ[\\]^_abcdefghijklmnopqrstuvwxyz{|}~"

Ord(ch) == Find(Ascii, ch, 1)

\* x < y: decided at the first position where they differ, a proper prefix first
StrLess(x, y) ==
    LET n    == IF Len(x) < Len(y) THEN Len(x) ELSE Len(y)
        diff == {k \in 1..n : CharAt(x, k) /= CharAt(y, k)}
        d    == CHOOSE k \in diff : \A j \in diff : k <= j
    IN IF diff = {} THEN Len(x) < Len(y)
       ELSE Ord(CharAt(x, d)) < Ord(CharAt(y, d))

\* sorted(set(...)) of a set of strings
RECURSIVE Sorted(_)
Sorted(S) ==
    IF S = {} THEN << >>
    ELSE LET least == CHOOSE x \in S : \A y \in S \ {x} : StrLess(x, y)
         IN <<least>> \o Sorted(S \ {least})

\* sep.join(seq)
RECURSIVE Join(_, _)
Join(seq, sep) ==
    IF seq = << >> THEN ""
    ELSE IF Len(seq) = 1 THEN seq[1]
    ELSE seq[1] \o sep \o Join(Tail(seq), sep)

Range(seq) == {seq[i] : i \in 1..Len(seq)}

-----------------------------------------------------------------------------
(* IRIConfig: configuration accessors *)

Ok(v) == [ok |-> TRUE, err |-> "", val |-> v]
Fail(msg) == [ok |-> FALSE, err |-> msg, val |-> ""]

\* the _ontologies property
Ontologies(config) ==
    IF HasKey(config, "ontologies") /\ IsMap(Get(config, "ontologies"))
    THEN Ok(Get(config, "ontologies").m)
    ELSE Fail("Config is missing required 'ontologies' mapping")

\* _load_config on the text of the config file
LoadConfig(lines) ==
    LET parsed == LoadSimpleYamlMapping(lines)
    IN IF parsed.err /= ""
       THEN Fail("Invalid YAML in IRI config: " \o parsed.err)
       ELSE IF ~(HasKey(parsed.root, "ontologies")
                 /\ IsMap(Get(parsed.root, "ontologies")))
       THEN Fail("IRI config must contain an 'ontologies' mapping")
       ELSE Ok(parsed.root)

\* the text _persist_config writes, as lines
PersistConfig(config) == DumpSimpleYamlMapping(config, 0)

\* config[section][field] as the four _*_base_url / _*_namespace_path helpers read it
ConfigField(config, section, field) ==
    IF /\ HasKey(config, section)
       /\ IsMap(Get(config, section))
       /\ HasKey(Get(config, section).m, field)
       /\ IsStr(Get(Get(config, section).m, field))
    THEN Ok(RStripSlash(Get(Get(config, section).m, field).s))
    ELSE Fail("Config is missing " \o section \o "." \o field)

LocalhostBaseUrl(config) == ConfigField(config, "localhost", "base_url")
LocalhostNamespacePath(config) == ConfigField(config, "localhost", "namespace_path")
ProductionBaseUrl(config) == ConfigField(config, "production", "base_url")
ProductionNamespacePath(config) == ConfigField(config, "production", "namespace_path")

ContextFile == "context.jsonld"

LocalhostContextUrl(config) ==
    LET b == LocalhostBaseUrl(config)
        n == LocalhostNamespacePath(config)
    IN IF ~b.ok THEN b
       ELSE IF ~n.ok THEN n
       ELSE Ok(b.val \o n.val \o "/" \o ContextFile)

ProductionContextUrl(config) ==
    LET b == ProductionBaseUrl(config)
        n == ProductionNamespacePath(config)
    IN IF ~b.ok THEN b
       ELSE IF ~n.ok THEN n
       ELSE Ok(b.val \o n.val \o "/" \o ContextFile)

\* _get_ontology_entry
GetOntologyEntry(config, ontology_name) ==
    LET onts == Ontologies(config)
    IN IF ~onts.ok THEN onts
       ELSE IF ~HasKey(onts.val, ontology_name)
       THEN Fail("Unknown ontology '" \o ontology_name \o "'. Known: "
                 \o Join(Sorted(Keys(onts.val)), ", "))
       ELSE IF ~IsMap(Get(onts.val, ontology_name))
       THEN Fail("Ontology entry '" \o ontology_name \o "' must be a mapping")
       ELSE Ok(Get(onts.val, ontology_name).m)

\* get_localhost_iri / get_production_iri: entry[field]; a missing key is a KeyError
GetIri(config, ontology_name, field) ==
    LET entry == GetOntologyEntry(config, ontology_name)
    IN IF ~entry.ok THEN entry
       ELSE IF ~HasKey(entry.val, field) THEN Fail("KeyError: " \o field)
       ELSE Ok(Get(entry.val, field).s)

\* get_production_iri reading the wrong key of the entry
GetProductionIriSwapped(config, ontology_name) ==
    GetIri(config, ontology_name, "localhost_iri")

GetLocalhostIri(config, ontology_name) == GetIri(config, ontology_name, "localhost_iri")
GetProductionIri(config, ontology_name) == GetIri(config, ontology_name, "production_iri")

-----------------------------------------------------------------------------
(* validate_iri_format: urlparse reduced to scheme and network location *)

UpperCase == "ABCDEFGHIJKLMNOPQRSTUVWXYZ"
LowerCase == "abcdefghijklmnopqrstuvwxyz"
SchemeExtra == "0123456789+-."

IsAlpha(ch) == Contains(UpperCase, ch) \/ Contains(LowerCase, ch)

LowerChar(ch) ==
    IF Contains(UpperCase, ch) THEN CharAt(LowerCase, Find(UpperCase, ch, 1)) ELSE ch

RECURSIVE Lower(_)
Lower(str) ==
    IF str = "" THEN "" ELSE LowerChar(CharAt(str, 1)) \o Lower(SubSeq(str, 2, Len(str)))

\* urlsplit's scheme: the text before the first ":" if it starts with a letter
\* and holds only scheme characters, lower-cased; "" otherwise
UrlScheme(url) ==
    LET i == Find(url, ":", 1)
    IN IF /\ i > 1
          /\ IsAlpha(CharAt(url, 1))
          /\ \A j \in 1..(i - 1) :
                IsAlpha(CharAt(url, j)) \/ Contains(SchemeExtra, CharAt(url, j))
       THEN Lower(SubSeq(url, 1, i - 1))
       ELSE ""

\* what follows the scheme and its ":"
UrlRest(url) ==
    IF UrlScheme(url) = "" THEN url
    ELSE SubSeq(url, Find(url, ":", 1) + 1, Len(url))

\* urlsplit's netloc: after a leading "//", up to the first of "/", "?", "#"
RECURSIVE UpToDelim(_)
UpToDelim(str) ==
    IF str = "" \/ CharAt(str, 1) \in {"/", "?", "#"} THEN ""
    ELSE CharAt(str, 1) \o UpToDelim(SubSeq(str, 2, Len(str)))

UrlNetloc(url) ==
    LET rest == UrlRest(url)
    IN IF StartsWith(rest, "//") THEN UpToDelim(SubSeq(rest, 3, Len(rest))) ELSE ""

\* urlsplit raises ValueError("Invalid IPv6 URL") when the network location
\* holds one of "[" and "]" without the other; a bracketed host is taken as
\* well-formed only when it is the whole host and is the IPv6 literal ::1
UrlparseRaises(url) ==
    LET netloc == UrlNetloc(url)
        open   == Contains(netloc, "[")
        close  == Contains(netloc, "]")
    IN \/ open /= close
       \/ open /\ close /\ ~(netloc = "[::1]" \/ StartsWith(netloc, "[::1]:"))

\* validate_iri_format raises instead of returning: the empty string and
\* strings with whitespace are answered before urlparse is called
ValidateIriFormatRaises(iri) ==
    /\ iri /= ""
    /\ ~HasSpace(iri)
    /\ UrlparseRaises(iri)

\* the value validate_iri_format returns, when it returns
ValidateIriFormat(iri) ==
    /\ iri /= ""
    /\ ~HasSpace(iri)
    /\ UrlScheme(iri) \in {"http", "https"}
    /\ UrlNetloc(iri) /= ""

-----------------------------------------------------------------------------
(* JSON documents.  A document text is [wf |-> is it well-formed JSON,
   v |-> the value it denotes]; json.loads yields v or raises, json.dumps of
   a value yields the well-formed text denoting it. *)

None == [t |-> "none", s |-> "", m |-> << >>]

JsonText(v) == [wf |-> TRUE, v |-> v]
Malformed == [wf |-> FALSE, v |-> None]

JsonLoads(text) ==
    IF text.wf THEN Ok(text.v) ELSE Fail("Invalid JSON-LD (malformed JSON)")

JsonDumps(v) == JsonText(v)

-----------------------------------------------------------------------------
(* Rebinder *)

Targets == {"production", "localhost"}

\* the (src, dst) pairs of the registered ontologies, in registry order;
\* entries that are not mappings of two string IRIs are skipped
RECURSIVE OntologyPairs(_, _)
OntologyPairs(onts, target) ==
    IF onts = << >> THEN << >>
    ELSE
      LET entry == Head(onts)[2]
          good  == /\ IsMap(entry)
                   /\ HasKey(entry.m, "localhost_iri")
                   /\ HasKey(entry.m, "production_iri")
                   /\ IsStr(Get(entry.m, "localhost_iri"))
                   /\ IsStr(Get(entry.m, "production_iri"))
          localhost  == Get(entry.m, "localhost_iri").s
          production == Get(entry.m, "production_iri").s
      IN (IF ~good THEN << >>
          ELSE IF target = "production" THEN << <<localhost, production>> >>
          ELSE << <<production, localhost>> >>)
         \o OntologyPairs(Tail(onts), target)

\* the replacement list left in the order it was appended in (the sort forgotten)
SortLongestFirstUnsorted(pairs) == pairs

\* list.sort(key=len(src), reverse=True): stable, longest source first
RECURSIVE SortLongestFirst(_)
SortLongestFirst(pairs) ==
    IF pairs = << >> THEN << >>
    ELSE
      LET first == CHOOSE i \in 1..Len(pairs) :
                     /\ \A j \in 1..Len(pairs) : Len(pairs[j][1]) <= Len(pairs[i][1])
                     /\ \A j \in 1..(i - 1) : Len(pairs[j][1]) < Len(pairs[i][1])
      IN <<pairs[first]>>
         \o SortLongestFirst(SubSeq(pairs, 1, first - 1)
                             \o SubSeq(pairs, first + 1, Len(pairs)))

\* pairs in the order _build_replacements appends them, before the sort
UnsortedReplacements(config, target) ==
    LET localhost_ctx  == LocalhostContextUrl(config).val
        production_ctx == ProductionContextUrl(config).val
        to   == IF target = "production" THEN production_ctx ELSE localhost_ctx
        from == IF target = "production" THEN localhost_ctx ELSE production_ctx
    IN OntologyPairs(Ontologies(config).val, target)
       \o << <<from, to>>, <<ContextFile, to>>, <<"./" \o ContextFile, to>> >>

BuildReplacements(config, target) ==
    SortLongestFirst(UnsortedReplacements(config, target))

\* _replace_many returning from inside its loop: only the first pair is applied
ReplaceManyFirstOnly(str, replacements) ==
    IF replacements = << >> THEN str
    ELSE Replace(str, Head(replacements)[1], Head(replacements)[2])

RECURSIVE ReplaceMany(_, _)
ReplaceMany(str, replacements) ==
    IF replacements = << >> THEN str
    ELSE ReplaceMany(Replace(str, Head(replacements)[1], Head(replacements)[2]),
                     Tail(replacements))

\* rewrite(value) touching identifiers only: the strings under "@id" and
\* "@base" are replaced, every other string is copied
RECURSIVE RewriteIdsOnly(_, _)
RewriteIdsOnly(value, replacements) ==
    IF IsList(value)
    THEN List([i \in 1..Len(value.m) |-> RewriteIdsOnly(value.m[i], replacements)])
    ELSE IF IsMap(value)
    THEN Map([i \in 1..Len(value.m) |->
                <<value.m[i][1],
                  IF IsStr(value.m[i][2])
                  THEN (IF value.m[i][1] \in {"@id", "@base"}
                        THEN Str(ReplaceMany(value.m[i][2].s, replacements))
                        ELSE value.m[i][2])
                  ELSE RewriteIdsOnly(value.m[i][2], replacements)>>])
    ELSE value

\* the nested rewrite(value) of rebind_iri
RECURSIVE Rewrite(_, _)
Rewrite(value, replacements) ==
    IF IsStr(value) THEN Str(ReplaceMany(value.s, replacements))
    ELSE IF IsList(value)
    THEN List([i \in 1..Len(value.m) |-> Rewrite(value.m[i], replacements)])
    ELSE IF IsMap(value)
    THEN Map([i \in 1..Len(value.m) |->
                <<value.m[i][1], Rewrite(value.m[i][2], replacements)>>])
    ELSE value

\* rebind_iri moving only the ontology it is called for: the pair of
\* ontology_name is the only registry pair applied
RebindIriNamedOnly(config, rdf_content, ontology_name, target) ==
    LET entry   == GetOntologyEntry(config, ontology_name)
        payload == JsonLoads(rdf_content)
        lctx    == LocalhostContextUrl(config)
        pctx    == ProductionContextUrl(config)
        named   == SelectSeq(Ontologies(config).val, LAMBDA o : o[1] = ontology_name)
    IN IF target \notin Targets
       THEN Fail("Invalid target '" \o target \o "'. Expected 'production' or 'localhost'.")
       ELSE IF ~entry.ok THEN Fail(entry.err)
       ELSE IF ~payload.ok THEN Fail(payload.err)
       ELSE IF ~lctx.ok THEN Fail(lctx.err)
       ELSE IF ~pctx.ok THEN Fail(pctx.err)
       ELSE Ok(JsonDumps(Rewrite(payload.val,
                                 SortLongestFirst(OntologyPairs(named, target)))))

\* rebind_iri looking the ontology up before it looks at the target
RebindIriOntologyFirst(config, rdf_content, ontology_name, target) ==
    LET entry   == GetOntologyEntry(config, ontology_name)
        payload == JsonLoads(rdf_content)
        lctx    == LocalhostContextUrl(config)
        pctx    == ProductionContextUrl(config)
    IN IF ~entry.ok THEN Fail(entry.err)
       ELSE IF target \notin Targets
       THEN Fail("Invalid target '" \o target \o "'. Expected 'production' or 'localhost'.")
       ELSE IF ~payload.ok THEN Fail(payload.err)
       ELSE IF ~lctx.ok THEN Fail(lctx.err)
       ELSE IF ~pctx.ok THEN Fail(pctx.err)
       ELSE Ok(JsonDumps(Rewrite(payload.val, BuildReplacements(config, target))))

RebindIri(config, rdf_content, ontology_name, target) ==
    LET entry   == GetOntologyEntry(config, ontology_name)
        payload == JsonLoads(rdf_content)
        lctx    == LocalhostContextUrl(config)
        pctx    == ProductionContextUrl(config)
    IN IF target \notin Targets
       THEN Fail("Invalid target '" \o target \o "'. Expected 'production' or 'localhost'.")
       ELSE IF ~entry.ok THEN Fail(entry.err)
       ELSE IF ~payload.ok THEN Fail(payload.err)
       ELSE IF ~lctx.ok THEN Fail(lctx.err)
       ELSE IF ~pctx.ok THEN Fail(pctx.err)
       ELSE Ok(JsonDumps(Rewrite(payload.val, BuildReplacements(config, target))))

-----------------------------------------------------------------------------
(* Fabrication scanner *)

\* _registered_bases collecting the localhost IRIs only
RegisteredBasesLocalhostOnly(config) ==
    LET onts == Ontologies(config).val
    IN {Get(onts[i][2].m, "localhost_iri").s :
          i \in {j \in 1..Len(onts) :
                   /\ IsMap(onts[j][2])
                   /\ HasKey(onts[j][2].m, "localhost_iri")
                   /\ IsStr(Get(onts[j][2].m, "localhost_iri"))}}

\* _registered_bases: every string localhost_iri / production_iri of a mapping entry
RegisteredBases(config) ==
    LET onts == Ontologies(config).val
    IN {Get(onts[i][2].m, k).s :
          <<i, k>> \in {<<j, f>> \in (1..Len(onts)) \X {"localhost_iri", "production_iri"} :
                          /\ IsMap(onts[j][2])
                          /\ HasKey(onts[j][2].m, f)
                          /\ IsStr(Get(onts[j][2].m, f))}}

RegisteredPrefixes ==
    {"catty", "lao", "mc", "lattice", "ch", "ex", "cit", "cu", "owl", "rdf",
     "rdfs", "xsd", "dct", "prov", "bibo", "skos", "dbo", "wd", "math"}

IsRegisteredBase(config, base_iri) == base_iri \in RegisteredBases(config)

AllowedExternalPrefixes ==
    {"http://www.w3.org/", "https://www.w3.org/",
     "http://purl.org/", "https://purl.org/",
     "http://dbpedia.org/", "https://dbpedia.org/",
     "http://www.wikidata.org/", "https://www.wikidata.org/",
     "http://doi.org/", "https://doi.org/",
     "http://en.wikipedia.org/", "https://en.wikipedia.org/",
     "http://arxiv.org/", "https://arxiv.org/",
     "http://metavacua.github.io/", "https://metavacua.github.io/"}

IsAllowedAbsoluteIri(config, iri) ==
    \/ \E base \in RegisteredBases(config) : StartsWith(iri, base)
    \/ \E pre \in AllowedExternalPrefixes : StartsWith(iri, pre)

\* contains ":" and does not start with "http:" / "https:"
IsCompact(raw_id) ==
    /\ Contains(raw_id, ":")
    /\ ~StartsWith(raw_id, "http:")
    /\ ~StartsWith(raw_id, "https:")

IsAllowedIdentifier(config, raw_id, expanded) ==
    IF StartsWith(raw_id, "_:") THEN TRUE
    ELSE IF ValidateIriFormat(expanded) THEN IsAllowedAbsoluteIri(config, expanded)
    ELSE IF IsCompact(raw_id)
    THEN SubSeq(raw_id, 1, Find(raw_id, ":", 1) - 1) \in RegisteredPrefixes
    ELSE TRUE

\* _extract_id_values: pre-order walk, the node's own "@id" before its children
RECURSIVE ExtractIdValues(_)
ExtractIdValues(node) ==
    LET RECURSIVE Children(_)
        Children(items) ==
          IF items = << >> THEN << >>
          ELSE ExtractIdValues(Head(items)) \o Children(Tail(items))
    IN IF IsMap(node)
       THEN (IF HasKey(node.m, "@id") /\ IsStr(Get(node.m, "@id"))
             THEN <<Get(node.m, "@id").s>> ELSE << >>)
            \o Children([i \in 1..Len(node.m) |-> node.m[i][2]])
       ELSE IF IsList(node) THEN Children(node.m)
       ELSE << >>

\* _extract_base_iri: a Str value or None
ExtractBaseIri(payload) ==
    IF ~IsMap(payload) \/ ~HasKey(payload.m, "@context") THEN None
    ELSE
      LET ctx == Get(payload.m, "@context")
          HasBase(item) == /\ IsMap(item)
                           /\ HasKey(item.m, "@base")
                           /\ IsStr(Get(item.m, "@base"))
      IN IF IsMap(ctx)
         THEN (IF HasBase(ctx) THEN Get(ctx.m, "@base") ELSE None)
         ELSE IF IsList(ctx)
         THEN (IF \E i \in 1..Len(ctx.m) : HasBase(ctx.m[i])
               THEN Get(ctx.m[CHOOSE i \in 1..Len(ctx.m) :
                                /\ HasBase(ctx.m[i])
                                /\ \A j \in 1..(i - 1) : ~HasBase(ctx.m[j])].m, "@base")
               ELSE None)
         ELSE None

\* _expand_id raises: validate_iri_format(raw_id) is its second step
ExpandIdRaises(raw_id, base_iri) ==
    ~StartsWith(raw_id, "_:") /\ ValidateIriFormatRaises(raw_id)

\* _is_allowed_identifier raises: validate_iri_format(expanded) is its second step
IsAllowedIdentifierRaises(config, raw_id, expanded) ==
    ~StartsWith(raw_id, "_:") /\ ValidateIriFormatRaises(expanded)

\* _expand_id; base_iri is a Str value or None
ExpandId(raw_id, base_iri) ==
    IF StartsWith(raw_id, "_:") THEN raw_id
    ELSE IF ValidateIriFormat(raw_id) THEN raw_id
    ELSE IF IsCompact(raw_id) THEN raw_id
    ELSE IF base_iri = None THEN raw_id
    ELSE base_iri.s \o raw_id

\* the loop over id_values: the sequence of [expanded, error] findings
RECURSIVE ScanIds(_, _, _)
ScanIds(config, id_values, base_iri) ==
    IF id_values = << >> THEN << >>
    ELSE
      LET raw_id   == Head(id_values)
          expanded == ExpandId(raw_id, base_iri)
      IN << [expanded |-> expanded,
             bad      |-> ~IsAllowedIdentifier(config, raw_id, expanded),
             error    |-> "Unauthorized @id IRI: " \o raw_id
                          \o " (expanded: " \o expanded \o ")"] >>
         \o ScanIds(config, Tail(id_values), base_iri)

SelectSeqBad(findings) == SelectSeq(findings, LAMBDA f : f.bad)

\* validate_no_fabricated_iris raises: the document parses and the loop over
\* its @id values reaches one on which _expand_id or _is_allowed_identifier raises
ValidateNoFabricatedIrisRaises(config, rdf_content) ==
    LET payload == JsonLoads(rdf_content)
    IN /\ payload.ok
       /\ LET base_iri == ExtractBaseIri(payload.val)
              ids      == ExtractIdValues(payload.val)
          IN \E i \in 1..Len(ids) :
               \/ ExpandIdRaises(ids[i], base_iri)
               \/ IsAllowedIdentifierRaises(config, ids[i], ExpandId(ids[i], base_iri))

\* validate_no_fabricated_iris computing ok from the error list before the
\* JSON error is put into it
ValidateNoFabricatedIrisOkTooEarly(config, rdf_content) ==
    LET payload == JsonLoads(rdf_content)
    IN IF ~payload.ok
       THEN [ok |-> TRUE, errors |-> <<payload.err>>, warnings |-> << >>,
             found_iris |-> << >>, unauthorized_iris |-> << >>, base_iri |-> None]
       ELSE
         LET base_iri == ExtractBaseIri(payload.val)
             badBase  == base_iri /= None /\ ~IsRegisteredBase(config, base_iri.s)
             ids      == ScanIds(config, ExtractIdValues(payload.val), base_iri)
             badIds   == SelectSeqBad(ids)
             errors   == (IF badBase
                          THEN <<"Unregistered @base IRI: " \o base_iri.s>>
                          ELSE << >>)
                         \o [i \in 1..Len(badIds) |-> badIds[i].error]
             found    == (IF base_iri /= None THEN {base_iri.s} ELSE {})
                         \cup {ids[i].expanded : i \in 1..Len(ids)}
             unauth   == (IF badBase THEN {base_iri.s} ELSE {})
                         \cup {badIds[i].expanded : i \in 1..Len(badIds)}
         IN [ok |-> Len(errors) = 0, errors |-> errors, warnings |-> << >>,
             found_iris |-> Sorted(found), unauthorized_iris |-> Sorted(unauth),
             base_iri |-> base_iri]

\* the result validate_no_fabricated_iris returns, when it returns
ValidateNoFabricatedIris(config, rdf_content) ==
    LET payload == JsonLoads(rdf_content)
    IN IF ~payload.ok
       THEN [ok |-> FALSE, errors |-> <<payload.err>>, warnings |-> << >>,
             found_iris |-> << >>, unauthorized_iris |-> << >>, base_iri |-> None]
       ELSE
         LET base_iri == ExtractBaseIri(payload.val)
             badBase  == base_iri /= None /\ ~IsRegisteredBase(config, base_iri.s)
             ids      == ScanIds(config, ExtractIdValues(payload.val), base_iri)
             badIds   == SelectSeqBad(ids)
             errors   == (IF badBase
                          THEN <<"Unregistered @base IRI: " \o base_iri.s>>
                          ELSE << >>)
                         \o [i \in 1..Len(badIds) |-> badIds[i].error]
             found    == (IF base_iri /= None THEN {base_iri.s} ELSE {})
                         \cup {ids[i].expanded : i \in 1..Len(ids)}
             unauth   == (IF badBase THEN {base_iri.s} ELSE {})
                         \cup {badIds[i].expanded : i \in 1..Len(badIds)}
         IN [ok |-> Len(errors) = 0, errors |-> errors, warnings |-> << >>,
             found_iris |-> Sorted(found), unauthorized_iris |-> Sorted(unauth),
             base_iri |-> base_iri]

-----------------------------------------------------------------------------
(* register_ontology, up to the write: the outcome and the configuration after *)

\* register_ontology without the check of the name: a registered name is
\* given the new entry
RegisterOntologyOverwriting(config, name, localhost_iri, production_iri, file_path) ==
    LET onts == Ontologies(config)
        ctx  == LocalhostContextUrl(config)
        Raise(msg) == [ok |-> FALSE, err |-> msg, config |-> config]
    IN IF ~onts.ok THEN Raise(onts.err)
       ELSE IF ValidateIriFormatRaises(localhost_iri) THEN Raise("Invalid IPv6 URL")
       ELSE IF ~ValidateIriFormat(localhost_iri)
       THEN Raise("Invalid localhost IRI format: " \o localhost_iri)
       ELSE IF ValidateIriFormatRaises(production_iri) THEN Raise("Invalid IPv6 URL")
       ELSE IF ~ValidateIriFormat(production_iri)
       THEN Raise("Invalid production IRI format: " \o production_iri)
       ELSE IF ~EndsWith(localhost_iri, "#") \/ ~EndsWith(production_iri, "#")
       THEN Raise("Ontology IRIs must end with '#'.")
       ELSE IF file_path = "" THEN Raise("file_path is required")
       ELSE IF ~ctx.ok THEN Raise(ctx.err)
       ELSE [ok |-> TRUE, err |-> "",
             config |-> Put(config, "ontologies",
                            Map(Put(onts.val, name,
                                    Map(<< <<"localhost_iri", Str(localhost_iri)>>,
                                           <<"production_iri", Str(production_iri)>>,
                                           <<"context_url", Str(ctx.val)>>,
                                           <<"file", Str(file_path)>> >>))))]

\* register_ontology inserting the entry before the '#' and file_path checks:
\* a call refused by those checks leaves the entry in the in-memory registry
RegisterOntologyPartial(config, name, localhost_iri, production_iri, file_path) ==
    LET onts == Ontologies(config)
        ctx  == LocalhostContextUrl(config)
        Raise(msg) == [ok |-> FALSE, err |-> msg, config |-> config]
        inserted ==
            Put(config, "ontologies",
                Map(Put(onts.val, name,
                        Map(<< <<"localhost_iri", Str(localhost_iri)>>,
                               <<"production_iri", Str(production_iri)>>,
                               <<"context_url", Str(ctx.val)>>,
                               <<"file", Str(file_path)>> >>))))
    IN IF ~onts.ok THEN Raise(onts.err)
       ELSE IF HasKey(onts.val, name)
       THEN Raise("Ontology '" \o name \o "' is already registered.")
       ELSE IF ~ValidateIriFormat(localhost_iri)
       THEN Raise("Invalid localhost IRI format: " \o localhost_iri)
       ELSE IF ~ValidateIriFormat(production_iri)
       THEN Raise("Invalid production IRI format: " \o production_iri)
       ELSE IF ~ctx.ok THEN Raise(ctx.err)
       ELSE IF ~EndsWith(localhost_iri, "#") \/ ~EndsWith(production_iri, "#")
       THEN [ok |-> FALSE, err |-> "Ontology IRIs must end with '#'.",
             config |-> inserted]
       ELSE IF file_path = ""
       THEN [ok |-> FALSE, err |-> "file_path is required", config |-> inserted]
       ELSE [ok |-> TRUE, err |-> "", config |-> inserted]

\* register_ontology without the check that both IRIs end with '#'
RegisterOntologyNoHashCheck(config, name, localhost_iri, production_iri, file_path) ==
    LET onts == Ontologies(config)
        ctx  == LocalhostContextUrl(config)
        Raise(msg) == [ok |-> FALSE, err |-> msg, config |-> config]
    IN IF ~onts.ok THEN Raise(onts.err)
       ELSE IF HasKey(onts.val, name)
       THEN Raise("Ontology '" \o name \o "' is already registered.")
       ELSE IF ~ValidateIriFormat(localhost_iri)
       THEN Raise("Invalid localhost IRI format: " \o localhost_iri)
       ELSE IF ~ValidateIriFormat(production_iri)
       THEN Raise("Invalid production IRI format: " \o production_iri)
       ELSE IF file_path = "" THEN Raise("file_path is required")
       ELSE IF ~ctx.ok THEN Raise(ctx.err)
       ELSE [ok |-> TRUE, err |-> "",
             config |-> Put(config, "ontologies",
                            Map(Put(onts.val, name,
                                    Map(<< <<"localhost_iri", Str(localhost_iri)>>,
                                           <<"production_iri", Str(production_iri)>>,
                                           <<"context_url", Str(ctx.val)>>,
                                           <<"file", Str(file_path)>> >>))))]

RegisterOntology(config, name, localhost_iri, production_iri, file_path) ==
    LET onts == Ontologies(config)
        ctx  == LocalhostContextUrl(config)
        Raise(msg) == [ok |-> FALSE, err |-> msg, config |-> config]
    IN IF ~onts.ok THEN Raise(onts.err)
       ELSE IF HasKey(onts.val, name)
       THEN Raise("Ontology '" \o name \o "' is already registered.")
       ELSE IF ValidateIriFormatRaises(localhost_iri) THEN Raise("Invalid IPv6 URL")
       ELSE IF ~ValidateIriFormat(localhost_iri)
       THEN Raise("Invalid localhost IRI format: " \o localhost_iri)
       ELSE IF ValidateIriFormatRaises(production_iri) THEN Raise("Invalid IPv6 URL")
       ELSE IF ~ValidateIriFormat(production_iri)
       THEN Raise("Invalid production IRI format: " \o production_iri)
       ELSE IF ~EndsWith(localhost_iri, "#") \/ ~EndsWith(production_iri, "#")
       THEN Raise("Ontology IRIs must end with '#'.")
       ELSE IF file_path = "" THEN Raise("file_path is required")
       ELSE IF ~ctx.ok THEN Raise(ctx.err)
       ELSE [ok |-> TRUE, err |-> "",
             config |-> Put(config, "ontologies",
                            Map(Put(onts.val, name,
                                    Map(<< <<"localhost_iri", Str(localhost_iri)>>,
                                           <<"production_iri", Str(production_iri)>>,
                                           <<"context_url", Str(ctx.val)>>,
                                           <<"file", Str(file_path)>> >>))))]

-----------------------------------------------------------------------------
(* Scaffold generator *)

KebabChars == LowerCase \o "0123456789"

\* re.fullmatch(r"[a-z0-9]+(?:-[a-z0-9]+)*", name): groups of lower-case
\* letters and digits, not empty, separated by single hyphens
IsKebabCase(name) ==
    /\ name /= ""
    /\ \A i \in 1..Len(name) :
         Contains(KebabChars, CharAt(name, i)) \/ CharAt(name, i) = "-"
    /\ CharAt(name, 1) /= "-"
    /\ CharAt(name, Len(name)) /= "-"
    /\ ~Contains(name, "--")

\* the document new_ontology returns
ScaffoldDoc(localhost_iri, name, description) ==
    Map(<< <<"@context", List(<<Str(ContextFile),
                                Map(<< <<"@base", Str(localhost_iri)>> >>)>>)>>,
           <<"@graph", List(<<Map(<< <<"@id", Str("")>>,
                                     <<"@type", Str("owl:Ontology")>>,
                                     <<"rdfs:label", Str(name)>>,
                                     <<"rdfs:comment", Str(description)>> >>)>>)>> >>)

\* new_ontology putting base_url and namespace_path together as the
\* configuration spells them, trailing slashes included
NewOntologyNoStrip(config, name, description) ==
    LET b == LocalhostBaseUrl(config)
        n == LocalhostNamespacePath(config)
    IN IF ~IsKebabCase(name)
       THEN Fail("Invalid ontology name. Expected kebab-case (lowercase letters, digits, hyphens).")
       ELSE IF ~b.ok THEN b
       ELSE IF ~n.ok THEN n
       ELSE Ok(ScaffoldDoc(Get(Get(config, "localhost").m, "base_url").s
                           \o Get(Get(config, "localhost").m, "namespace_path").s
                           \o "/" \o name \o "#", name, description))

\* new_ontology: the document, or the ValueError of the name check or of the
\* two helpers that read the localhost section
NewOntology(config, name, description) ==
    LET b == LocalhostBaseUrl(config)
        n == LocalhostNamespacePath(config)
    IN IF ~IsKebabCase(name)
       THEN Fail("Invalid ontology name. Expected kebab-case (lowercase letters, digits, hyphens).")
       ELSE IF ~b.ok THEN b
       ELSE IF ~n.ok THEN n
       ELSE Ok(ScaffoldDoc(b.val \o n.val \o "/" \o name \o "#", name, description))

-----------------------------------------------------------------------------
(* IRIValidator (schema/validators/validate_iris.py) *)

\* IRIValidator._load_config: the same text read by a copy of the same parser
ValidatorLoadConfig(lines) == LoadConfig(lines)

Finding(path, message, severity) ==
    [file |-> path, message |-> message, severity |-> severity]

\* IRIValidator._expected_context_url (a namespace_path that is a mapping is
\* printed as Python prints the empty dict)
ExpectedContextUrl(config) ==
    IF ~(/\ HasKey(config, "localhost")
         /\ IsMap(Get(config, "localhost"))
         /\ HasKey(Get(config, "localhost").m, "base_url")
         /\ IsStr(Get(Get(config, "localhost").m, "base_url")))
    THEN "http://localhost:8080/ontology/context.jsonld"
    ELSE
      LET localhost == Get(config, "localhost").m
          namespace == IF ~HasKey(localhost, "namespace_path") THEN "/ontology"
                       ELSE IF IsStr(Get(localhost, "namespace_path"))
                       THEN Get(localhost, "namespace_path").s
                       ELSE "{}"
      IN RStripSlash(Get(localhost, "base_url").s) \o RStripSlash(namespace)
         \o "/context.jsonld"

\* IRIValidator._registered_bases / _is_registered_base
ValidatorIsRegisteredBase(config, base_iri) ==
    LET onts == Get(config, "ontologies").m
    IN \E i \in 1..Len(onts), k \in {"localhost_iri", "production_iri"} :
         /\ IsMap(onts[i][2])
         /\ HasKey(onts[i][2].m, k)
         /\ Get(onts[i][2].m, k) = Str(base_iri)

\* IRIValidator._extract_base_iri
ValidatorExtractBaseIri(payload) == ExtractBaseIri(payload)

\* IRIValidator._context_includes_expected
ContextIncludesExpected(config, payload) ==
    LET accepted == {ExpectedContextUrl(config), "context.jsonld", "./context.jsonld"}
    IN /\ IsMap(payload)
       /\ HasKey(payload.m, "@context")
       /\ LET ctx == Get(payload.m, "@context")
          IN \/ IsStr(ctx) /\ ctx.s \in accepted
             \/ /\ IsList(ctx)
                /\ \E i \in 1..Len(ctx.m) : IsStr(ctx.m[i]) /\ ctx.m[i].s \in accepted

\* the part of validate_ontology_file after the scan, returning False without
\* copying the scan's errors
ScanFindingsSilent(path, warnings, iri_scan) ==
    [ret |-> iri_scan.ok, raised |-> FALSE, warnings |-> warnings, errors |-> << >>]

\* the part of validate_ontology_file after the scan has returned iri_scan
ScanFindings(path, warnings, iri_scan) ==
    IF ~iri_scan.ok
    THEN [ret |-> FALSE, raised |-> FALSE, warnings |-> warnings,
          errors |-> [i \in 1..Len(iri_scan.errors) |->
                        Finding(path, iri_scan.errors[i], "ERROR")]]
    ELSE [ret |-> TRUE, raised |-> FALSE, warnings |-> warnings, errors |-> << >>]

\* validate_ontology_file on a validator v and the file at path (exists: the
\* path is there, content: its text): the value returned, the findings the
\* call appends, and whether the scan raised instead of returning; the scan is
\* run once
ValidateOntologyFile(v, path, exists, content) ==
    LET payload  == JsonLoads(content)
        base_iri == ValidatorExtractBaseIri(payload.val)
        Stop(message) == [ret |-> FALSE, raised |-> FALSE, warnings |-> << >>,
                          errors |-> <<Finding(path, message, "ERROR")>>]
    IN IF ~exists THEN Stop("Ontology file not found: " \o path)
       ELSE IF ~payload.ok THEN Stop(payload.err)
       ELSE IF base_iri = None THEN Stop("Missing @base in @context")
       ELSE IF ~ValidatorIsRegisteredBase(v.config, base_iri.s)
       THEN Stop("@base IRI is not registered in iri-config.yaml: " \o base_iri.s)
       ELSE
         LET warnings ==
               IF ContextIncludesExpected(v.config, payload.val) THEN << >>
               ELSE <<Finding(path, "@context does not include expected context URL: "
                                    \o ExpectedContextUrl(v.config), "WARNING")>>
         IN IF ValidateNoFabricatedIrisRaises(v.iri_config, content)
            THEN [ret |-> FALSE, raised |-> TRUE, warnings |-> warnings,
                  errors |-> << >>]
            ELSE CHOOSE result \in
                   {ScanFindings(path, warnings, iri_scan) :
                      iri_scan \in {ValidateNoFabricatedIris(v.iri_config, content)}} :
                   TRUE

-----------------------------------------------------------------------------
(* Bounds and inputs *)

\* IRIConfig instances alive over the one config file
MaxInst == 2
\* the registry is not grown beyond this many ontologies
MaxOntologies == 3
\* how many times an output of rebind_iri is fed back to rebind_iri, and how
\* many times new_ontology is called again with the same arguments
MaxChain == 2
\* a validator is not used any more once it holds this many findings
MaxFindings == 1

MaxLines == 3
Insts == 1..MaxInst

LocalhostBase == "http://localhost:8080"
ProductionBase == "https://example.com"
NamespacePath == "/ontology"

L(stem) == LocalhostBase \o NamespacePath \o "/" \o stem \o "#"
P(stem) == ProductionBase \o NamespacePath \o "/" \o stem \o "#"
CtxL == LocalhostBase \o NamespacePath \o "/" \o ContextFile
CtxP == ProductionBase \o NamespacePath \o "/" \o ContextFile

\* the config file the tests write: one registered ontology, a
InitialConfigText ==
    << "localhost:",
       "  base_url: \"http://localhost:8080\"",
       "  namespace_path: \"/ontology\"",
       "",
       "production:",
       "  base_url: \"https://example.com\"",
       "  namespace_path: \"/ontology\"",
       "",
       "ontologies:",
       "  a:",
       "    localhost_iri: \"http://localhost:8080/ontology/a#\"",
       "    production_iri: \"https://example.com/ontology/a#\"",
       "    context_url: \"http://localhost:8080/ontology/context.jsonld\"",
       "    file: \"ontology/a.jsonld\"" >>

Args(name, l, p, f) ==
    [name |-> name, localhost_iri |-> l, production_iri |-> p, file_path |-> f]

\* calls register_ontology accepts on a fresh name: a-ext shares a name prefix
\* with a, q has a quote character in its production IRI
GoodRegisterArgs ==
    { Args("a-ext", L("a-ext"), P("a-ext"), "ontology/a-ext.jsonld"),
      Args("q", L("q"), ProductionBase \o NamespacePath \o "/q\"#", "ontology/q.jsonld") }

\* a-frag has a localhost IRI that extends a's
FragRegisterArgs ==
    { Args("a-frag", L("a") \o "frag#", P("a-frag"), "ontology/a-frag.jsonld") }

\* calls register_ontology must refuse
BadRegisterArgs ==
    { Args("a", L("a2"), P("a2"), "ontology/a2.jsonld"),
      Args("bad", "localhost:8080/ontology/bad#", P("bad"), "ontology/bad.jsonld"),
      Args("bad", L("bad"), "example.com/ontology/bad#", "ontology/bad.jsonld"),
      Args("bad", LocalhostBase \o "/ontology/has space#", P("bad"), "ontology/bad.jsonld"),
      Args("bad", LocalhostBase \o "/ontology/bad", P("bad"), "ontology/bad.jsonld"),
      Args("bad", L("bad"), ProductionBase \o "/ontology/bad", "ontology/bad.jsonld"),
      Args("bad", L("bad"), P("bad"), "") }

RegisterArgs == GoodRegisterArgs \cup BadRegisterArgs

LookupNames == {"a", "q", "missing"}

Obj(pairs) == Map(pairs)

\* documents written in the localhost environment
DocLocalA ==
    Obj(<< <<"@context", List(<<Str(CtxL), Obj(<< <<"@base", Str(L("a"))>> >>)>>)>>,
           <<"@graph", List(<<Obj(<< <<"@id", Str("X")>>,
                                     <<"@type", Str("owl:Class")>>,
                                     <<"rdfs:seeAlso", Str(L("a-ext") \o "Y")>> >>)>>)>> >>)

DocLocalFrag ==
    Obj(<< <<"@context", List(<<Str(CtxL), Obj(<< <<"@base", Str(L("a") \o "frag#")>> >>)>>)>>,
           <<"@graph", List(<<Obj(<< <<"@id", Str(L("a") \o "frag#Y")>>,
                                     <<"rdfs:comment", Str("see " \o L("a") \o "Thing and " \o L("q") \o "Z")>>,
                                     <<"version", Scalar("1")>> >>)>>)>> >>)

\* a document using the relative spellings of the context
DocRelative ==
    Obj(<< <<"@context", List(<<Str(ContextFile), Obj(<< <<"@base", Str(L("a"))>> >>)>>)>>,
           <<"@graph", List(<<Obj(<< <<"@id", Str("")>>,
                                     <<"seeAlso", List(<<Str("./" \o ContextFile),
                                                        Str(L("a-ext") \o "Y")>>)>> >>)>>)>> >>)

\* a document written in the production environment
DocProd ==
    Obj(<< <<"@context", List(<<Str(CtxP), Obj(<< <<"@base", Str(P("a"))>> >>)>>)>>,
           <<"@graph", List(<<Obj(<< <<"@id", Str(P("a-ext") \o "Y")>>,
                                     <<"related", Obj(<< <<"@id", Str(P("a-frag") \o "Z")>> >>)>> >>)>>)>> >>)

LocalhostDocs == {JsonText(DocLocalA), JsonText(DocLocalFrag)}

RebindDocs == LocalhostDocs \cup {JsonText(DocRelative), JsonText(DocProd), Malformed}

RebindTargets == {"production", "localhost", "staging"}

\* documents for the fabrication scanner
DocEvil ==
    Obj(<< <<"@context", List(<<Str(CtxL), Obj(<< <<"@base", Str(L("a"))>> >>)>>)>>,
           <<"@graph", List(<<Obj(<< <<"@id", Str("http://evil.example/ontology#X")>> >>)>>)>> >>)

DocEvilNested ==
    Obj(<< <<"@id", Str("X")>>,
           <<"related", List(<<Obj(<< <<"@id", Str("_:b0")>> >>),
                               Obj(<< <<"@id", Str("owl:Thing")>>,
                                      <<"sameAs", Obj(<< <<"@id", Str("https://evil.example/x")>> >>)>> >>),
                               Obj(<< <<"@id", Str("http://www.w3.org/2002/07/owl#Thing")>> >>)>>)>> >>)

DocEvilSpace ==
    Obj(<< <<"@context", Obj(<< <<"@base", Str(L("a"))>> >>)>>,
           <<"@graph", List(<<Obj(<< <<"@id", Str(L("a") \o "X")>> >>),
                              Obj(<< <<"@id", Str("http://evil.example/has space")>> >>)>>)>> >>)

ScanDocs ==
    {JsonText(DocLocalA), JsonText(DocProd), JsonText(DocEvil),
     JsonText(DocEvilNested), JsonText(DocEvilSpace), Malformed}

\* @id values of every class the scanner tells apart: blank nodes, IRIs under
\* registered bases, allow-listed and unrelated absolute IRIs, compact IRIs with
\* known and unknown prefixes, relative identifiers, and strings that start
\* like an IRI but are not well-formed
IdValues ==
    { "_:b0", "_:[x",
      L("a") \o "X", P("a") \o "X", L("q") \o "Z", L("a") \o "has space",
      "http://www.w3.org/2002/07/owl#Thing",
      "http://evil.example/x", P("zz") \o "X",
      "owl:Thing", "catty:Logic", "foo:Bar", "ex://[a",
      "X", "", "#frag", "//[x", "has space",
      "http://evil.example/has space", "http://[evil.example/x", "http:x" }

\* the @id values of one scanned document, in document order
IdSeqs ==
    {<< >>} \cup {<<x>> : x \in IdValues}
    \cup { <<L("a") \o "X", "owl:Thing">>, <<"http://evil.example/x", "X">>,
           <<"X", "//[x">>,
           <<"http://evil.example/x", "foo:Bar", "http://evil.example/x">> }

\* the @base of a scanned document: absent, registered from the start,
\* registered once q is, never registered, an extension of a registered base
BaseValues ==
    { None, Str(L("a")), Str(L("q")), Str("http://evil.example/base#"),
      Str(L("a") \o "x") }

\* the document with that @base (if any) and a node for each @id value
BuiltDoc(base, ids) ==
    Obj((IF base = None THEN << >>
         ELSE << <<"@context", Obj(<< <<"@base", base>> >>)>> >>)
        \o << <<"@graph", List([i \in 1..Len(ids) |->
                                  Obj(<< <<"@id", Str(ids[i])>> >>)])>> >>)

\* arguments of validate_iri_format beyond the @id values
FormatValues ==
    IdValues \cup
    { "http://example.com/x", "https://example.com/ontology/a#", "example.com/x",
      "localhost:8080/x#", "HTTP://example.com/x", "ftp://example.com/x",
      "http:///x", "https://?x", "http://[::1]/x", "http://a]b/x" }

\* config files written by hand: base_url and namespace_path with a trailing
\* slash; a base_url with a double quote in it; no localhost section at all
ConfigText(base_url, namespace_path) ==
    << "localhost:",
       "  base_url: \"" \o base_url \o "\"",
       "  namespace_path: \"" \o namespace_path \o "\"",
       "",
       "production:",
       "  base_url: \"https://example.com\"",
       "  namespace_path: \"/ontology\"",
       "",
       "ontologies:",
       "  a:",
       "    localhost_iri: \"http://localhost:8080/ontology/a#\"",
       "    production_iri: \"https://example.com/ontology/a#\"",
       "    file: \"ontology/a.jsonld\"" >>

SlashConfigText == ConfigText("http://localhost:8080/", "/ontology/")
QuoteConfigText == ConfigText("http://local\"host", "/ontology")

BareConfigText ==
    << "ontologies:",
       "  a:",
       "    localhost_iri: \"http://localhost:8080/ontology/a#\"",
       "    production_iri: \"https://example.com/ontology/a#\"",
       "    file: \"ontology/a.jsonld\"" >>

ConfigTexts == {InitialConfigText, SlashConfigText, QuoteConfigText, BareConfigText}

\* names new_ontology is called with: kebab-case ones and ones that are not
ScaffoldNames ==
    {"n", "new-onto", "a", "9", "Bad Name", "", "a--b", "-a", "a-", "A", "a_b"}

\* names whose scaffold is written to a file and registered
CommitNames == {"n", "new-onto"}

Descriptions == {"d", "A \"new\" ontology"}

OntologyPath(name) == "ontology/" \o name \o ".jsonld"

\* a document without @base
DocNoBase ==
    Obj(<< <<"@context", Str(ContextFile)>>,
           <<"@graph", List(<<Obj(<< <<"@id", Str("X")>> >>)>>)>> >>)

\* a document under a's base whose context is an object only, with an @id the
\* scanner reports
DocNoImport ==
    Obj(<< <<"@context", Obj(<< <<"@base", Str(L("a"))>> >>)>>,
           <<"@graph", List(<<Obj(<< <<"@id", Str("http://evil.example/x")>> >>)>>)>> >>)

\* a document under a's base with an @id on which the scan raises
DocBracket ==
    Obj(<< <<"@context", List(<<Str(ContextFile), Obj(<< <<"@base", Str(L("a"))>> >>)>>)>>,
           <<"@graph", List(<<Obj(<< <<"@id", Str("http://[evil.example/x")>> >>)>>)>> >>)

\* a document under a's base whose context is an object only and whose @id is
\* under that base
DocNoImportOk ==
    Obj(<< <<"@context", Obj(<< <<"@base", Str(L("a"))>> >>)>>,
           <<"@graph", List(<<Obj(<< <<"@id", Str(L("a") \o "Thing")>> >>)>>)>> >>)

\* lines a hand-edited config file is made of: entries and headers at several
\* depths, a line indented by one space, a line without a colon, a comment
YamlLinePool ==
    {"a: x", "a:", "  b: y", "  b:", "    c: z", "      f:", " d: e", "e", "# c"}

\* the texts of at most MaxLines lines
YamlTexts ==
    UNION {[1..n -> YamlLinePool] : n \in 1..MaxLines}

\* scalar values of a mapping: plain, with whitespace, ":" or "#", with quote
\* characters, and empty
YamlScalars ==
    {"x", "x y", "b:c", "#x", "\"x\"", "'x'", "say \"hi\" now", ""}

\* nested mappings of string keys to string scalars or nested mappings
YamlMappings ==
    {<< >>, << <<"a", Map(<< >>)>> >>}
    \cup {<< <<"a", Str(v)>> >> : v \in YamlScalars}
    \cup {<< <<"a", Str(v)>>, <<"b", Str(w)>> >> : v, w \in YamlScalars}
    \cup {<< <<"a", Map(<< <<"b", Str(v)>> >>)>> >> : v \in YamlScalars}
    \cup {<< <<"a", Map(<< >>)>>, <<"b", Str(v)>> >> : v \in YamlScalars}
    \cup {<< <<"a", Map(<< <<"b", Map(<< >>)>> >>)>>, <<"c", Str(v)>> >> :
            v \in YamlScalars}

OntologyFile(name, path, exists, content) ==
    [name |-> name, path |-> path, exists |-> exists, content |-> content]

\* files validate_ontology_file is called on that are not scaffolds
OtherFiles ==
    { OntologyFile("", "ontology/missing.jsonld", FALSE, Malformed),
      OntologyFile("", "ontology/x.jsonld", TRUE, Malformed),
      OntologyFile("", "ontology/x.jsonld", TRUE, JsonText(DocNoBase)),
      OntologyFile("", "ontology/x.jsonld", TRUE, JsonText(DocNoImport)),
      OntologyFile("", "ontology/x.jsonld", TRUE, JsonText(DocNoImportOk)),
      OntologyFile("", "ontology/x.jsonld", TRUE, JsonText(DocBracket)) }

-----------------------------------------------------------------------------
(* State *)

VARIABLES
    file,   \* the config file: the lines of its text
    cfg,    \* cfg[i]: instance i of IRIConfig, [live, config (its _config)]
    last,   \* the latest call: its arguments, outcome and the state it started from
    validator   \* the IRIValidator: [live, config (its _config), iri_config (the
                \* _config of its IRIConfig), errors, warnings], and as history
                \* the registry instance 1 held when it was constructed

vars == <<file, cfg, last, validator>>

NoScan ==
    [ok |-> FALSE, errors |-> << >>, warnings |-> << >>, found_iris |-> << >>,
     unauthorized_iris |-> << >>, base_iri |-> None]

NoCall ==
    [op |-> "none", inst |-> 0, name |-> "", localhost_iri |-> "",
     production_iri |-> "", file_path |-> "", target |-> "", doc |-> Malformed,
     ok |-> TRUE, err |-> "", iri |-> "", out |-> Malformed, scan |-> NoScan,
     pre |-> << >>, preFile |-> << >>, prevDoc |-> Malformed, prevTarget |-> "",
     depth |-> 0, ids |-> << >>, base |-> None, ret |-> FALSE,
     exists |-> TRUE, findings |-> << >>, data |-> << >>, root |-> << >>,
     text |-> << >>, prevName |-> "", prevOk |-> TRUE, prevOut |-> Malformed]

Call(op, i) ==
    [NoCall EXCEPT !.op = op, !.inst = i, !.pre = cfg[i].config, !.preFile = file]

NotLoaded == [live |-> FALSE, config |-> << >>]

NoValidator ==
    [live |-> FALSE, config |-> << >>, iri_config |-> << >>, errors |-> << >>,
     warnings |-> << >>, registry |-> << >>]

\* instance 1 has been constructed from the file as first written; the others
\* and the validator not yet
InitFrom(text) ==
    /\ file = text
    /\ cfg = [i \in Insts |->
                IF i = 1 THEN [live |-> TRUE, config |-> LoadConfig(text).val]
                ELSE NotLoaded]
    /\ last = NoCall
    /\ validator = NoValidator

Init == InitFrom(InitialConfigText)

\* the same over each of the hand-written config files
InitScaffold == \E text \in ConfigTexts : InitFrom(text)

\* a call starts once the outcome of the one before it has been taken
Idle == last.op = "none"

\* the caller takes the outcome of the latest call
Return ==
    /\ ~Idle
    /\ last' = NoCall
    /\ UNCHANGED <<file, cfg, validator>>

\* IRIConfig(config_path): instance i is built, once, from the file as it is
\* now; if the constructor raises, no instance comes to be
Construct(i) ==
    LET loaded == LoadConfig(file)
    IN /\ Idle
       /\ ~cfg[i].live
       /\ cfg' = IF loaded.ok
                 THEN [cfg EXCEPT ![i] = [live |-> TRUE, config |-> loaded.val]]
                 ELSE cfg
       /\ last' = [Call("construct", i) EXCEPT !.ok = loaded.ok, !.err = loaded.err]
       /\ UNCHANGED <<file, validator>>

\* register_ontology re-reading the file before it inserts: the entry is
\* merged into what is on disk instead of into the instance's own registry
RegisterMerging(i, a) ==
    LET onDisk == LoadConfig(file)
        base == IF onDisk.ok THEN onDisk.val ELSE cfg[i].config
        r == RegisterOntology(base, a.name, a.localhost_iri,
                              a.production_iri, a.file_path)
    IN /\ Idle
       /\ cfg[i].live
       /\ r.ok => Len(Ontologies(base).val) < MaxOntologies
       /\ cfg' = [cfg EXCEPT ![i].config = r.config]
       /\ file' = IF r.ok THEN PersistConfig(r.config) ELSE file
       /\ last' = [Call("register_ontology", i) EXCEPT
                     !.name = a.name, !.localhost_iri = a.localhost_iri,
                     !.production_iri = a.production_iri, !.file_path = a.file_path,
                     !.ok = r.ok, !.err = r.err]
       /\ UNCHANGED validator

\* cfg[i].register_ontology(...): on success the entry is inserted and the whole
\* configuration of instance i overwrites the file
Register(i, a) ==
    LET r == RegisterOntology(cfg[i].config, a.name, a.localhost_iri,
                              a.production_iri, a.file_path)
    IN /\ Idle
       /\ cfg[i].live
       /\ r.ok => Len(Ontologies(cfg[i].config).val) < MaxOntologies
       /\ cfg' = [cfg EXCEPT ![i].config = r.config]
       /\ file' = IF r.ok THEN PersistConfig(r.config) ELSE file
       /\ last' = [Call("register_ontology", i) EXCEPT
                     !.name = a.name, !.localhost_iri = a.localhost_iri,
                     !.production_iri = a.production_iri, !.file_path = a.file_path,
                     !.ok = r.ok, !.err = r.err]
       /\ UNCHANGED validator

\* cfg[i].get_localhost_iri(name) / cfg[i].get_production_iri(name)
Lookup(i, name, which) ==
    LET r == IF which = "localhost" THEN GetLocalhostIri(cfg[i].config, name)
             ELSE GetProductionIri(cfg[i].config, name)
    IN /\ Idle
       /\ cfg[i].live
       /\ last' = [Call("get_" \o which \o "_iri", i) EXCEPT
                     !.name = name, !.ok = r.ok, !.err = r.err, !.iri = r.val]
       /\ UNCHANGED <<file, cfg, validator>>

RebindCall(i, text, name, target, prevDoc, prevTarget, depth) ==
    LET r == RebindIri(cfg[i].config, text, name, target)
    IN /\ cfg[i].live
       /\ last' = [Call("rebind_iri", i) EXCEPT
                     !.name = name, !.target = target, !.doc = text,
                     !.ok = r.ok, !.err = r.err,
                     !.out = IF r.ok THEN r.val ELSE Malformed,
                     !.prevDoc = prevDoc, !.prevTarget = prevTarget, !.depth = depth]
       /\ UNCHANGED <<file, cfg, validator>>

\* cfg[i].rebind_iri(text, name, target)
Rebind(i, text, name, target) ==
    /\ Idle
    /\ RebindCall(i, text, name, target, Malformed, "", 1)

\* the output of the latest rebind_iri is rebound again, by the same instance
\* and for the same ontology
RebindAgain(target) ==
    /\ last.op = "rebind_iri"
    /\ last.ok
    /\ last.depth < MaxChain
    /\ RebindCall(last.inst, last.out, last.name, target, last.doc, last.target,
                  last.depth + 1)

\* the same instance is asked to rebind the same document for the same target
\* once more, under the name of any ontology
RebindRepeat(name) ==
    /\ last.op = "rebind_iri"
    /\ last.depth < MaxChain
    /\ \E r \in {RebindIri(cfg[last.inst].config, last.doc, name, last.target)} :
         last' = [Call("rebind_iri", last.inst) EXCEPT
                    !.name = name, !.target = last.target, !.doc = last.doc,
                    !.ok = r.ok, !.err = r.err,
                    !.out = IF r.ok THEN r.val ELSE Malformed,
                    !.prevName = last.name, !.prevOk = last.ok,
                    !.prevOut = last.out, !.depth = last.depth + 1]
    /\ UNCHANGED <<file, cfg, validator>>

\* cfg[i].validate_no_fabricated_iris(text)
Scan(i, text) ==
    /\ Idle
    /\ cfg[i].live
    /\ last' = IF ValidateNoFabricatedIrisRaises(cfg[i].config, text)
               THEN [Call("validate_no_fabricated_iris", i) EXCEPT
                       !.doc = text, !.ok = FALSE, !.err = "Invalid IPv6 URL"]
               ELSE [Call("validate_no_fabricated_iris", i) EXCEPT
                       !.doc = text,
                       !.scan = ValidateNoFabricatedIris(cfg[i].config, text)]
    /\ UNCHANGED <<file, cfg, validator>>

\* cfg[i].validate_no_fabricated_iris(text) on the document built from an
\* @base and a sequence of @id values
ScanBuilt(i, base, ids) ==
    LET text == JsonText(BuiltDoc(base, ids))
    IN /\ Idle
       /\ cfg[i].live
       /\ last' = IF ValidateNoFabricatedIrisRaises(cfg[i].config, text)
                  THEN [Call("validate_no_fabricated_iris", i) EXCEPT
                          !.doc = text, !.ids = ids, !.base = base,
                          !.ok = FALSE, !.err = "Invalid IPv6 URL"]
                  ELSE [Call("validate_no_fabricated_iris", i) EXCEPT
                          !.doc = text, !.ids = ids, !.base = base,
                          !.scan = ValidateNoFabricatedIris(cfg[i].config, text)]
       /\ UNCHANGED <<file, cfg, validator>>

\* cfg[i]._expand_id(raw_id, base_iri)
Expand(i, raw_id, base_iri) ==
    /\ Idle
    /\ cfg[i].live
    /\ last' = IF ExpandIdRaises(raw_id, base_iri)
               THEN [Call("_expand_id", i) EXCEPT
                       !.ids = <<raw_id>>, !.base = base_iri,
                       !.ok = FALSE, !.err = "Invalid IPv6 URL"]
               ELSE [Call("_expand_id", i) EXCEPT
                       !.ids = <<raw_id>>, !.base = base_iri,
                       !.iri = ExpandId(raw_id, base_iri)]
    /\ UNCHANGED <<file, cfg, validator>>

\* cfg[i].validate_iri_format(iri)
ValidateFormat(i, iri) ==
    /\ Idle
    /\ cfg[i].live
    /\ last' = IF ValidateIriFormatRaises(iri)
               THEN [Call("validate_iri_format", i) EXCEPT
                       !.ids = <<iri>>, !.ok = FALSE, !.err = "Invalid IPv6 URL"]
               ELSE [Call("validate_iri_format", i) EXCEPT
                       !.ids = <<iri>>, !.ret = ValidateIriFormat(iri)]
    /\ UNCHANGED <<file, cfg, validator>>

ScaffoldCall(i, name, description, prevDoc, depth) ==
    LET r == NewOntology(cfg[i].config, name, description)
    IN /\ cfg[i].live
       /\ last' = [Call("new_ontology", i) EXCEPT
                     !.name = name, !.localhost_iri = description,
                     !.ok = r.ok, !.err = r.err,
                     !.out = IF r.ok THEN JsonDumps(r.val) ELSE Malformed,
                     !.prevDoc = prevDoc, !.depth = depth]
       /\ UNCHANGED <<file, cfg, validator>>

\* new_ontology registering the ontology it generates
ScaffoldRegistering(i, name, description) ==
    /\ Idle
    /\ cfg[i].live
    /\ \E r \in {NewOntology(cfg[i].config, name, description)} :
         /\ last' = [Call("new_ontology", i) EXCEPT
                       !.name = name, !.localhost_iri = description,
                       !.ok = r.ok, !.err = r.err,
                       !.out = IF r.ok THEN JsonDumps(r.val) ELSE Malformed,
                       !.depth = 1]
         /\ cfg' = IF r.ok
                   THEN [cfg EXCEPT ![i].config =
                           RegisterOntology(@, name, ExtractBaseIri(r.val).s, P(name),
                                            OntologyPath(name)).config]
                   ELSE cfg
    /\ UNCHANGED <<file, validator>>

\* cfg[i].new_ontology(name, description); the description is kept in the
\* second argument slot of the call record
Scaffold(i, name, description) ==
    /\ Idle
    /\ ScaffoldCall(i, name, description, Malformed, 1)

\* the same instance is asked for the same scaffold again
ScaffoldAgain ==
    /\ last.op = "new_ontology"
    /\ last.depth < MaxChain
    /\ ScaffoldCall(last.inst, last.name, last.localhost_iri, last.out, last.depth + 1)

\* the scaffold of name is committed: cfg[i].register_ontology(name, <the
\* scaffold's @base>, <production IRI>, <its file>)
RegisterScaffold(i, name) ==
    LET scaffold == NewOntology(cfg[i].config, name, "d")
    IN /\ cfg[i].live
       /\ scaffold.ok
       /\ Register(i, Args(name, ExtractBaseIri(scaffold.val).s, P(name),
                           OntologyPath(name)))

\* IRIValidator(config_path): a new validator is built from the file as it is
\* now, by two reads of it; if the constructor raises there is none
ConstructValidator ==
    LET loaded == ValidatorLoadConfig(file)
        inner  == LoadConfig(file)
    IN /\ Idle
       /\ validator' = IF loaded.ok /\ inner.ok
                       THEN [live |-> TRUE, config |-> loaded.val,
                             iri_config |-> inner.val, errors |-> << >>,
                             warnings |-> << >>, registry |-> cfg[1].config]
                       ELSE NoValidator
       /\ last' = [NoCall EXCEPT !.op = "IRIValidator", !.preFile = file,
                     !.ok = loaded.ok /\ inner.ok,
                     !.err = IF ~loaded.ok THEN loaded.err ELSE inner.err]
       /\ UNCHANGED <<file, cfg>>

\* validator.validate_ontology_file(f.path)
ValidateFile(f) ==
    /\ Idle
    /\ validator.live
    /\ Len(validator.errors) + Len(validator.warnings) < MaxFindings
    /\ \E r \in {ValidateOntologyFile(validator, f.path, f.exists, f.content)} :
         /\ validator' = [validator EXCEPT !.errors = @ \o r.errors,
                                           !.warnings = @ \o r.warnings]
         /\ last' = [NoCall EXCEPT !.op = "validate_ontology_file", !.preFile = file,
                       !.name = f.name, !.file_path = f.path, !.exists = f.exists,
                       !.doc = f.content, !.ok = ~r.raised,
                       !.err = IF r.raised THEN "Invalid IPv6 URL" ELSE "",
                       !.ret = r.ret, !.findings = r.errors \o r.warnings]
    /\ UNCHANGED <<file, cfg>>

\* the files with the scaffolds instance 1 generates
ScaffoldFiles ==
    {OntologyFile(name, OntologyPath(name), TRUE,
                  JsonDumps(NewOntology(cfg[1].config, name, "d").val)) :
       name \in {n \in CommitNames \cup {"a"} : NewOntology(cfg[1].config, n, "d").ok}}

\* the registry over its file: instances are built, register and look up
Next ==
    \/ \E i \in Insts : Construct(i)
    \/ \E i \in Insts, a \in RegisterArgs : Register(i, a)
    \/ \E i \in Insts, name \in LookupNames, which \in {"localhost", "production"} :
          Lookup(i, name, which)
    \/ Return

Spec == Init /\ [][Next]_vars

\* the rebinder of the first instance, over the registries it can hold
NextRebind ==
    \/ \E a \in RegisterArgs \cup FragRegisterArgs : Register(1, a)
    \/ \E text \in RebindDocs, name \in {"a", "missing"}, target \in RebindTargets :
          Rebind(1, text, name, target)
    \/ \E target \in Targets : RebindAgain(target)
    \/ Return

SpecRebind == Init /\ [][NextRebind]_vars

\* the scanner of the first instance, over the registries it can hold
NextScan ==
    \/ \E a \in RegisterArgs \cup FragRegisterArgs : Register(1, a)
    \/ \E text \in ScanDocs : Scan(1, text)
    \/ Return

SpecScan == Init /\ [][NextScan]_vars

\* the scanner of the first instance on documents built from every class of
\* @id and @base, over the registries it can hold
NextScanIds ==
    \/ \E a \in GoodRegisterArgs : Register(1, a)
    \/ \E base \in BaseValues, ids \in IdSeqs : ScanBuilt(1, base, ids)
    \/ Return

SpecScanIds == Init /\ [][NextScanIds]_vars

\* _load_simple_yaml_mapping(text), text given as its lines
ParseCall(lines, data, depth) ==
    /\ \E r \in {LoadSimpleYamlMapping(lines)} :
         last' = [NoCall EXCEPT !.op = "_load_simple_yaml_mapping", !.text = lines,
                    !.ok = (r.err = ""), !.err = r.err,
                    !.root = IF r.err = "" THEN r.root ELSE << >>,
                    !.data = data, !.depth = depth]
    /\ UNCHANGED <<file, cfg, validator>>

Parse(lines) ==
    /\ Idle
    /\ ParseCall(lines, << >>, 1)

\* the restricted parser on its own
NextParse ==
    \/ \E lines \in YamlTexts : Parse(lines)
    \/ Return

SpecParse == Init /\ [][NextParse]_vars

\* _dump_simple_yaml_mapping(data)
Dump(data) ==
    /\ Idle
    /\ last' = [NoCall EXCEPT !.op = "_dump_simple_yaml_mapping", !.data = data,
                  !.text = DumpSimpleYamlMapping(data, 0)]
    /\ UNCHANGED <<file, cfg, validator>>

\* the text a dump returned is parsed
ParseDumped ==
    /\ last.op = "_dump_simple_yaml_mapping"
    /\ ParseCall(last.text, last.data, 2)

\* the serializer and the parser applied to its output
NextDump ==
    \/ \E data \in YamlMappings : Dump(data)
    \/ ParseDumped
    \/ Return

SpecDump == Init /\ [][NextDump]_vars

\* every public method of the first instance, called in any order
NextFrame ==
    \/ \E a \in RegisterArgs : Register(1, a)
    \/ \E name \in LookupNames, which \in {"localhost", "production"} :
          Lookup(1, name, which)
    \/ \E iri \in {"http://example.com/x", "example.com/x", "http://[evil.example/x"} :
          ValidateFormat(1, iri)
    \/ \E text \in {JsonText(DocLocalA), Malformed}, name \in {"a", "missing"},
          target \in RebindTargets :
          Rebind(1, text, name, target)
    \/ \E text \in ScanDocs : Scan(1, text)
    \/ \E name \in {"n", "Bad Name"} : Scaffold(1, name, "d")
    \/ Return

SpecFrame == Init /\ [][NextFrame]_vars

\* the rebinder of the first instance asked twice for the same document
NextRepeat ==
    \/ \E a \in GoodRegisterArgs \cup FragRegisterArgs : Register(1, a)
    \/ \E text \in RebindDocs, name \in {"a", "a-ext", "missing"},
          target \in RebindTargets :
          Rebind(1, text, name, target)
    \/ \E name \in {"a", "a-ext", "a-frag", "missing"} : RebindRepeat(name)
    \/ Return

SpecRepeat == Init /\ [][NextRepeat]_vars

\* the two helpers of the scanner on their own
NextHelpers ==
    \/ \E raw_id \in IdValues, base \in BaseValues : Expand(1, raw_id, base)
    \/ \E iri \in FormatValues : ValidateFormat(1, iri)
    \/ Return

SpecHelpers == Init /\ [][NextHelpers]_vars

\* the scaffold generator of the first instance, over the hand-written config
\* files
NextGenerate ==
    \/ \E name \in ScaffoldNames, description \in Descriptions :
          Scaffold(1, name, description)
    \/ ScaffoldAgain
    \/ Return

SpecGenerate == InitScaffold /\ [][NextGenerate]_vars

\* an author generates scaffolds, commits them to the registry and has them
\* validated by validators built from the config file
NextScaffold ==
    \/ \E name \in CommitNames : Scaffold(1, name, "d")
    \/ \E name \in CommitNames : Idle /\ RegisterScaffold(1, name)
    \/ ConstructValidator
    \/ \E f \in ScaffoldFiles \cup OtherFiles : ValidateFile(f)
    \/ Return

SpecScaffold == InitScaffold /\ [][NextScaffold]_vars

-----------------------------------------------------------------------------
(* Properties of the rebinder, checked under SpecRebind *)

RECURSIVE ConcatAll(_)
ConcatAll(seqs) ==
    IF seqs = << >> THEN << >> ELSE Head(seqs) \o ConcatAll(Tail(seqs))

\* the string values of a JSON value in document order (keys are not values)
RECURSIVE Strings(_)
Strings(v) ==
    IF IsStr(v) THEN <<v.s>>
    ELSE IF IsList(v) THEN ConcatAll([i \in 1..Len(v.m) |-> Strings(v.m[i])])
    ELSE IF IsMap(v) THEN ConcatAll([i \in 1..Len(v.m) |-> Strings(v.m[i][2])])
    ELSE << >>

OccursAt(str, sub, q) ==
    /\ q + Len(sub) - 1 <= Len(str)
    /\ SubSeq(str, q, q + Len(sub) - 1) = sub

LastRebindOk == last.op = "rebind_iri" /\ last.ok

\* the latest rebind_iri call: its registry, parsed input and output, and the
\* two environments it maps between
RebindConfig == cfg[last.inst].config
RebindIn     == Strings(JsonLoads(last.doc).val)
RebindOut    == Strings(JsonLoads(last.out).val)
SourceCtx == IF last.target = "production" THEN LocalhostContextUrl(RebindConfig).val
             ELSE ProductionContextUrl(RebindConfig).val
TargetCtx == IF last.target = "production" THEN ProductionContextUrl(RebindConfig).val
             ELSE LocalhostContextUrl(RebindConfig).val
SourceField == IF last.target = "production" THEN "localhost_iri" ELSE "production_iri"
TargetField == IF last.target = "production" THEN "production_iri" ELSE "localhost_iri"
\* (source IRI, target IRI) of every registered ontology, then of the context URL
EnvPairs == OntologyPairs(Ontologies(RebindConfig).val, last.target)
            \o << <<SourceCtx, TargetCtx>> >>

\* C1: round trip. A document written in the localhost environment, rebound to
\* production and the result rebound to localhost by the same instance for the
\* same ontology, parses to the value the document parsed to.
C1_RoundTrip ==
    (/\ LastRebindOk
     /\ last.depth = 2
     /\ last.target = "localhost"
     /\ last.prevTarget = "production"
     /\ last.prevDoc \in LocalhostDocs)
    => JsonLoads(last.out).val = JsonLoads(last.prevDoc).val

\* C2: context URL rebinding. After a successful rebind_iri to target T every
\* string value of the document equal to the source context URL or to one of
\* the relative spellings "context.jsonld" / "./context.jsonld" has become
\* exactly the target context URL; an @base that was the ontology's source IRI
\* is its target IRI; a relative @id is unchanged.
C2_ContextUrlExact ==
    LastRebindOk =>
      LET in     == JsonLoads(last.doc).val
          out    == JsonLoads(last.out).val
          idsIn  == ExtractIdValues(in)
          idsOut == ExtractIdValues(out)
          srcIri == GetIri(RebindConfig, last.name, SourceField).val
          tgtIri == GetIri(RebindConfig, last.name, TargetField).val
      IN /\ Len(RebindOut) = Len(RebindIn)
         /\ \A i \in 1..Len(RebindIn) :
              RebindIn[i] \in {SourceCtx, ContextFile, "./" \o ContextFile}
              => RebindOut[i] = TargetCtx
         /\ ExtractBaseIri(in) = Str(srcIri) => ExtractBaseIri(out) = Str(tgtIri)
         /\ Len(idsOut) = Len(idsIn)
         /\ \A i \in 1..Len(idsIn) :
              ~Contains(idsIn[i], ":") => idsOut[i] = idsIn[i]

Descending(pairs) ==
    \A i, j \in 1..Len(pairs) : i < j => Len(pairs[i][1]) >= Len(pairs[j][1])

\* the replacement pairs are applied in descending length of their sources
ReplacementsDescending ==
    cfg[1].live => \A t \in Targets : Descending(BuildReplacements(cfg[1].config, t))

\* a string in which the source IRI S of a registered ontology occurs, every
\* replacement source occurring in the string occurring at that same place and
\* being no longer than S, is rebound to the same string with S replaced by
\* the target IRI of the ontology of S
LongestMatchWins ==
    LastRebindOk =>
      LET reps == BuildReplacements(RebindConfig, last.target)
          onto == OntologyPairs(Ontologies(RebindConfig).val, last.target)
      IN \A i \in 1..Len(RebindIn) :
           LET str == RebindIn[i]
               \* <<m, q>>: the source of replacement pair m occurs at q
               occ == {o \in (1..Len(reps)) \X (1..Len(str)) :
                         OccursAt(str, reps[o[1]][1], o[2])}
           IN \A k \in 1..Len(onto) : \A o \in occ :
                (/\ reps[o[1]][1] = onto[k][1]
                 /\ \A x \in occ : /\ x[2] = o[2]
                                   /\ Len(reps[x[1]][1]) <= Len(onto[k][1]))
                => RebindOut[i] = SubSeq(str, 1, o[2] - 1) \o onto[k][2]
                                  \o SubSeq(str, o[2] + Len(onto[k][1]), Len(str))

\* C3: longest match first. The replacement pairs are applied in descending
\* length of their source strings; and a string that contains the source IRI S
\* of a registered ontology as its longest match (shorter registered IRIs that
\* are prefixes of S match at the same place, nothing else matches in the
\* string) is rebound to the target IRI of the ontology of S followed by what
\* followed S, never to a shorter ontology's target IRI and a leftover of S.
C3_LongestMatchFirst == ReplacementsDescending /\ LongestMatchWins

\* C3 witness: with a and a-frag registered (the localhost IRI of a is a prefix
\* of that of a-frag), a string starting with a-frag's localhost IRI has been
\* rebound to a-frag's production IRI followed by the same suffix.
C3_Witness ==
    /\ LastRebindOk
    /\ last.target = "production"
    /\ HasKey(Ontologies(RebindConfig).val, "a")
    /\ HasKey(Ontologies(RebindConfig).val, "a-frag")
    /\ \E i \in 1..Len(RebindIn) :
         /\ RebindIn[i] = L("a") \o "frag#Y"
         /\ RebindOut[i] = P("a-frag") \o "Y"

-----------------------------------------------------------------------------
(* Properties of the registry, checked under Spec *)

Names(config) == Keys(Ontologies(config).val)

LastRegister == last.op = "register_ontology"

\* C5: register_ontology fails when the name is already registered, when either
\* IRI fails validate_iri_format, when either IRI does not end with "#" and
\* when file_path is empty; and after a failed call the registry of the instance
\* and the config file are what they were before the call.
C5_RegisterFailsCleanly ==
    LastRegister =>
      /\ (\/ last.name \in Names(last.pre)
          \/ ~ValidateIriFormat(last.localhost_iri)
          \/ ~ValidateIriFormat(last.production_iri)
          \/ ~EndsWith(last.localhost_iri, "#")
          \/ ~EndsWith(last.production_iri, "#")
          \/ last.file_path = "")
         => ~last.ok
      /\ ~last.ok => /\ cfg[last.inst].config = last.pre
                     /\ file = last.preFile

\* C5 witness: a call with a well-formed localhost IRI that lacks the final "#"
\* has been refused, after an earlier registration had succeeded.
C5_Witness ==
    /\ LastRegister
    /\ ~last.ok
    /\ last.name \notin Names(last.pre)
    /\ ValidateIriFormat(last.localhost_iri)
    /\ ~EndsWith(last.localhost_iri, "#")
    /\ Cardinality(Names(last.pre)) >= 2

\* C6: persistence. An IRIConfig constructed from the config file an instance
\* has written (the file is what that instance persisted) loads, and returns
\* for every name the writing instance holds the same localhost and production
\* IRI as the writing instance.
C6_Persistence ==
    last.op = "construct" =>
      \A w \in Insts \ {last.inst} :
        (cfg[w].live /\ file = PersistConfig(cfg[w].config))
        => /\ last.ok
           /\ \A n \in Names(cfg[w].config) :
                /\ GetLocalhostIri(cfg[last.inst].config, n)
                     = GetLocalhostIri(cfg[w].config, n)
                /\ GetProductionIri(cfg[last.inst].config, n)
                     = GetProductionIri(cfg[w].config, n)

RegistryInvariant(config) ==
    LET onts == Ontologies(config)
    IN /\ onts.ok
       /\ \A i, j \in 1..Len(onts.val) : onts.val[i][1] = onts.val[j][1] => i = j
       /\ \A n \in Keys(onts.val) :
            LET l == GetLocalhostIri(config, n)
                p == GetProductionIri(config, n)
            IN /\ l.ok /\ ValidateIriFormat(l.val) /\ EndsWith(l.val, "#")
               /\ p.ok /\ ValidateIriFormat(p.val) /\ EndsWith(p.val, "#")

\* C7: registry invariant. After every register_ontology call, accepted or
\* refused, on an instance built from the initial file or from a file an
\* instance has written, every name of that instance's registry is unique and
\* get_localhost_iri and get_production_iri return, for every registered name,
\* an IRI that passes validate_iri_format and ends with "#"; the registry an
\* instance is constructed with satisfies the same.
C7_RegistryInvariant ==
    (LastRegister \/ (last.op = "construct" /\ last.ok))
    => RegistryInvariant(cfg[last.inst].config)

\* C7 witness: a registry grown by accepted calls, right after a refused one.
C7_Witness ==
    /\ LastRegister
    /\ ~last.ok
    /\ Cardinality(Names(cfg[last.inst].config)) = MaxOntologies

\* C8: last writer wins. After every accepted register_ontology call the file
\* holds the registry of the instance that made the call: the names that
\* instance had before the call and the new name, whatever another instance
\* had written to the file in between.
C8_LastWriterWins ==
    (LastRegister /\ last.ok) =>
      LET onDisk == LoadConfig(file)
      IN /\ file = PersistConfig(cfg[last.inst].config)
         /\ onDisk.ok
         /\ Names(onDisk.val) = Names(last.pre) \cup {last.name}
         /\ Names(onDisk.val) = Names(cfg[last.inst].config)

\* C8 witness: the lost update. Two instances built from the same file have each
\* registered a different new name, and the file lacks the name of the one
\* that wrote first.
C8_Witness ==
    /\ LastRegister
    /\ last.ok
    /\ \E j \in Insts \ {last.inst} :
         /\ cfg[j].live
         /\ last.name \notin Names(cfg[j].config)
         /\ \E n \in Names(cfg[j].config) :
              /\ n \notin Names(cfg[last.inst].config)
              /\ n \notin Names(LoadConfig(file).val)

LastLookup == last.op \in {"get_localhost_iri", "get_production_iri"}

\* C9: lookup. For a registered name get_localhost_iri / get_production_iri
\* return the localhost_iri / production_iri stored in its entry; for any other
\* name they fail with an "Unknown ontology" error whose message holds every
\* registered name; the registry and the file are unchanged either way.
C9_Lookup ==
    LastLookup =>
      LET onts  == Ontologies(cfg[last.inst].config).val
          field == IF last.op = "get_localhost_iri" THEN "localhost_iri"
                   ELSE "production_iri"
      IN /\ cfg[last.inst].config = last.pre
         /\ file = last.preFile
         /\ IF HasKey(onts, last.name)
            THEN /\ last.ok
                 /\ last.iri = Get(Get(onts, last.name).m, field).s
            ELSE /\ ~last.ok
                 /\ StartsWith(last.err, "Unknown ontology")
                 /\ \A n \in Keys(onts) : Contains(last.err, n)

\* C9 witness: get_production_iri has returned the production IRI of q, which
\* differs from its localhost IRI.
C9_Witness ==
    /\ last.op = "get_production_iri"
    /\ last.ok
    /\ last.name = "q"
    /\ last.iri /= GetLocalhostIri(cfg[last.inst].config, "q").val

-----------------------------------------------------------------------------
(* Properties of the fabrication scanner, checked under SpecScan *)

\* C10: fabrication detection. In every scanned document that parses, every
\* @id value that starts with "http://" or "https://" and has neither a
\* registered base nor an allow-listed external namespace as a prefix is
\* reported: the scan returns ok = false and the value is in unauthorized_iris.
C10_UnrelatedDomainFlagged ==
    (last.op = "validate_no_fabricated_iris" /\ JsonLoads(last.doc).ok) =>
      LET config == cfg[last.inst].config
          ids    == ExtractIdValues(JsonLoads(last.doc).val)
      IN \A i \in 1..Len(ids) :
           (/\ StartsWith(ids[i], "http://") \/ StartsWith(ids[i], "https://")
            /\ ~IsAllowedAbsoluteIri(config, ids[i]))
           => /\ ~last.scan.ok
              /\ \E u \in 1..Len(last.scan.unauthorized_iris) :
                   last.scan.unauthorized_iris[u] = ids[i]

-----------------------------------------------------------------------------
(* Properties of the scanner per identifier, checked under SpecScanIds *)

LastScan == last.op = "validate_no_fabricated_iris"

\* the latest scan returned a result and its errors hold the "Unauthorized @id"
\* error of that @id value
IdErrorReported(raw_id) ==
    /\ LastScan
    /\ last.ok
    /\ \E e \in 1..Len(last.scan.errors) :
         StartsWith(last.scan.errors[e],
                    "Unauthorized @id IRI: " \o raw_id \o " (expanded: ")

\* the latest scan returned a result that lists the string as unauthorized
ListedUnauthorized(str) ==
    /\ LastScan
    /\ last.ok
    /\ \E u \in 1..Len(last.scan.unauthorized_iris) :
         last.scan.unauthorized_iris[u] = str

\* the latest scan returned a result that does not report that @id value
IdAuthorized(raw_id) == LastScan /\ last.ok /\ ~IdErrorReported(raw_id)

\* the localhost and production IRIs the ontology table holds
TableIris(config) ==
    LET onts    == Ontologies(config).val
        entries == {onts[i][2] : i \in 1..Len(onts)}
    IN UNION {{Get(e.m, f).s :
                 f \in {g \in {"localhost_iri", "production_iri"} :
                          HasKey(e.m, g) /\ IsStr(Get(e.m, g))}} :
              e \in {x \in entries : IsMap(x)}}

UnderRegisteredBase(config, str) ==
    \E base \in TableIris(config) : StartsWith(str, base)

\* C11: fabrication detection accepts registered identifiers. An @id that is a
\* registered base (localhost or production IRI of the registry) followed by
\* any suffix is not listed in unauthorized_iris and has no "Unauthorized @id"
\* error.
C11_RegisteredIdAccepted ==
    LastScan =>
      LET config == cfg[last.inst].config
      IN \A k \in 1..Len(last.ids) :
           UnderRegisteredBase(config, last.ids[k])
           => /\ ~IdErrorReported(last.ids[k])
              /\ ~ListedUnauthorized(last.ids[k])

\* C11 witness: with q registered, a document whose @id is q's localhost IRI
\* and a suffix, under an unregistered @base, has been scanned.
C11_Witness ==
    /\ LastScan
    /\ last.ok
    /\ last.ids = <<L("q") \o "Z">>
    /\ UnderRegisteredBase(cfg[last.inst].config, L("q") \o "Z")
    /\ last.base = Str("http://evil.example/base#")
    /\ ~last.scan.ok

IsRelativeId(raw_id) ==
    /\ ~StartsWith(raw_id, "_:")
    /\ ~ValidateIriFormat(raw_id)
    /\ ~IsCompact(raw_id)

\* C12: a relative @id (not a blank node, not an absolute IRI, not of compact
\* form) is always authorized: it is not listed in unauthorized_iris and has no
\* "Unauthorized @id" error, whether the @base of the document is registered,
\* unregistered or absent.
C12_RelativeIdAuthorized ==
    LastScan =>
      \A k \in 1..Len(last.ids) :
        IsRelativeId(last.ids[k])
        => /\ ~IdErrorReported(last.ids[k])
           /\ ~ListedUnauthorized(last.ids[k])

\* C13: authorization per identifier class. In the result of a scan a blank
\* node is authorized; an absolute IRI is authorized exactly if it starts with
\* a registered base or an allow-listed external prefix; a compact IRI
\* (contains ":" and does not start with "http:" / "https:") is authorized
\* exactly if the text before its first ":" is a known namespace prefix.
C13_AuthorizationPerClass ==
    LastScan =>
      LET config == cfg[last.inst].config
      IN \A k \in 1..Len(last.ids) :
           LET id == last.ids[k]
           IN /\ StartsWith(id, "_:") => IdAuthorized(id)
              /\ (~StartsWith(id, "_:") /\ ~ValidateIriFormatRaises(id)
                  /\ ValidateIriFormat(id))
                 => (IdAuthorized(id) <=> IsAllowedAbsoluteIri(config, id))
              /\ (~StartsWith(id, "_:") /\ IsCompact(id))
                 => (IdAuthorized(id)
                     <=> SubSeq(id, 1, Find(id, ":", 1) - 1) \in RegisteredPrefixes)

\* C14: an @base that is not equal to a registered localhost or production IRI
\* makes the scan return ok = false with an "Unregistered @base IRI" error and
\* the base in unauthorized_iris, whatever the @id values of the document are.
C14_UnregisteredBaseReported ==
    (LastScan /\ last.base /= None
     /\ last.base.s \notin TableIris(cfg[last.inst].config))
    => /\ last.ok
       /\ ~last.scan.ok
       /\ \E e \in 1..Len(last.scan.errors) :
            last.scan.errors[e] = "Unregistered @base IRI: " \o last.base.s
       /\ ListedUnauthorized(last.base.s)

\* the result of the latest scan reports every violation of the document: the
\* unregistered @base and each @id occurrence that fails the authorization rule
ScanReportsAll ==
    LET config   == cfg[last.inst].config
        Expanded(k) == ExpandId(last.ids[k], last.base)
        bad      == {k \in 1..Len(last.ids) :
                       ~IsAllowedIdentifier(config, last.ids[k], Expanded(k))}
        badBase  == last.base /= None /\ last.base.s \notin TableIris(config)
        expected == (IF badBase THEN {last.base.s} ELSE {})
                    \cup {Expanded(k) : k \in bad}
        unauth   == last.scan.unauthorized_iris
    IN /\ Range(unauth) = expected
       /\ Len(last.scan.errors) = Cardinality(bad) + (IF badBase THEN 1 ELSE 0)
       /\ last.scan.ok <=> unauth = << >>
       /\ \A i, j \in 1..Len(unauth) : i < j => StrLess(unauth[i], unauth[j])
       /\ Range(unauth) \subseteq Range(last.scan.found_iris)

\* C27: the scanner reports all violations in one pass.  For valid JSON it
\* returns a result in which unauthorized_iris is exactly the unregistered
\* @base (if any) together with the expansion of every @id of the document
\* that fails the authorization rule, errors has one entry per violating
\* occurrence, ok is true exactly if unauthorized_iris is empty, and
\* unauthorized_iris is sorted, without duplicates, and a subset of found_iris.
C27_AllViolationsReported ==
    (LastScan /\ JsonLoads(last.doc).ok) => (last.ok /\ ScanReportsAll)

\* the same for the scans that return
ReturnedScanReportsAll ==
    (LastScan /\ JsonLoads(last.doc).ok /\ last.ok) => ScanReportsAll

\* a returned scan with three violating occurrences of two identifiers
ThreeOccurrencesReported ==
    /\ LastScan
    /\ last.ok
    /\ last.base = None
    /\ Len(last.ids) = 3
    /\ Len(last.scan.errors) = 3
    /\ Len(last.scan.unauthorized_iris) = 2

-----------------------------------------------------------------------------
(* Properties of failing calls *)

\* C15: on malformed JSON validate_no_fabricated_iris does not raise: it
\* returns ok = false, one error, which is an "Invalid JSON-LD" error, empty
\* found_iris and unauthorized_iris, and no base_iri.  Checked under SpecScan.
C15_MalformedJsonResult ==
    (LastScan /\ ~JsonLoads(last.doc).ok)
    => /\ last.ok
       /\ ~last.scan.ok
       /\ Len(last.scan.errors) = 1
       /\ StartsWith(last.scan.errors[1], "Invalid JSON-LD")
       /\ last.scan.found_iris = << >>
       /\ last.scan.unauthorized_iris = << >>
       /\ last.scan.base_iri = None

\* C15 witness: the malformed text has been scanned by an instance whose
\* registry holds more than the initial ontology.
C15_Witness ==
    /\ LastScan
    /\ last.doc = Malformed
    /\ Cardinality(Names(cfg[last.inst].config)) >= 2
    /\ Len(last.scan.errors) = 1

\* C16: rebind_iri fails with "Invalid target" when the target is not one of
\* the two literals, whatever the ontology name and the document are; with a
\* valid target it fails with "Unknown ontology" when the name is not
\* registered, whatever the document is; with a valid target and a registered
\* name it fails with "Invalid JSON-LD" when the document is not valid JSON;
\* a failing call has no output and changes nothing.  Checked under SpecRebind.
C16_RebindFailureOrder ==
    last.op = "rebind_iri" =>
      LET registered == last.name \in Names(cfg[last.inst].config)
      IN /\ last.target \notin Targets
            => ~last.ok /\ StartsWith(last.err, "Invalid target")
         /\ (last.target \in Targets /\ ~registered)
            => ~last.ok /\ StartsWith(last.err, "Unknown ontology")
         /\ (last.target \in Targets /\ registered /\ ~JsonLoads(last.doc).ok)
            => ~last.ok /\ StartsWith(last.err, "Invalid JSON-LD")
         /\ ~last.ok => /\ last.out = Malformed
                        /\ cfg[last.inst].config = last.pre
                        /\ file = last.preFile

\* C16 witness: an invalid target has been reported for a call whose ontology
\* is unknown and whose document is malformed as well.
C16_Witness ==
    /\ last.op = "rebind_iri"
    /\ last.target = "staging"
    /\ last.name = "missing"
    /\ last.doc = Malformed
    /\ StartsWith(last.err, "Invalid target")

-----------------------------------------------------------------------------
(* Properties of the helpers, checked under SpecHelpers *)

\* C17: _expand_id returns raw_id unchanged when it is a blank node, when it
\* passes validate_iri_format, when it is a compact IRI or when base_iri is
\* None, and base_iri followed by raw_id in every other case.
C17_ExpandId ==
    last.op = "_expand_id" =>
      LET raw_id == last.ids[1]
      IN /\ last.ok
         /\ last.iri = IF \/ StartsWith(raw_id, "_:")
                          \/ ValidateIriFormat(raw_id)
                          \/ IsCompact(raw_id)
                          \/ last.base = None
                       THEN raw_id
                       ELSE last.base.s \o raw_id

\* C18: validate_iri_format returns a truth value for every string: true
\* exactly if the string has no whitespace, its scheme is http or https and
\* its network location is not empty; false for a string without a scheme and
\* for the empty string.
C18_ValidateIriFormat ==
    last.op = "validate_iri_format" =>
      LET iri == last.ids[1]
      IN /\ last.ok
         /\ last.ret <=> (/\ ~HasSpace(iri)
                          /\ UrlScheme(iri) \in {"http", "https"}
                          /\ UrlNetloc(iri) /= "")
         /\ iri \in {"", "example.com/x", "localhost:8080/x#"} => ~last.ret

-----------------------------------------------------------------------------
(* Properties of the scaffold generator, checked under SpecGenerate, and of
   the author-then-commit sequence, checked under SpecScaffold *)

LastScaffold == last.op = "new_ontology"

\* config[section][field] as the file spells it
RawField(config, section, field) == Get(Get(config, section).m, field).s

\* the localhost section holds base_url and namespace_path strings
HasLocalhostSection(config) ==
    /\ HasKey(config, "localhost")
    /\ IsMap(Get(config, "localhost"))
    /\ \A field \in {"base_url", "namespace_path"} :
         /\ HasKey(Get(config, "localhost").m, field)
         /\ IsStr(Get(Get(config, "localhost").m, field))

\* the entries of the @context list of a generated document
ScaffoldContext(text) == Get(text.v.m, "@context").m

ScaffoldBase(text) == Get(ScaffoldContext(text)[2].m, "@base").s

\* C19: new_ontology(name, description) fails exactly if name does not match
\* ^[a-z0-9]+(-[a-z0-9]+)*$; otherwise the @base of the returned document is
\* localhost.base_url followed by localhost.namespace_path, "/", name and "#",
\* its first context entry is "context.jsonld", and a second call with the
\* same arguments and configuration returns an equal document.
C19_ScaffoldNaming ==
    LastScaffold =>
      LET config == cfg[last.inst].config
      IN /\ ~last.ok <=> ~IsKebabCase(last.name)
         /\ last.ok =>
              /\ ScaffoldBase(last.out)
                 = RawField(config, "localhost", "base_url")
                   \o RawField(config, "localhost", "namespace_path")
                   \o "/" \o last.name \o "#"
              /\ ScaffoldContext(last.out)[1] = Str("context.jsonld")
         /\ last.depth > 1 => last.out = last.prevDoc

\* C19 as the code has it: new_ontology fails exactly if name is not kebab-case
\* or the configuration has no localhost.base_url / localhost.namespace_path
\* string; otherwise the @base of the returned document is base_url and
\* namespace_path, each without its trailing slashes, followed by "/", name
\* and "#", its first context entry is "context.jsonld", and a second call
\* with the same arguments and configuration returns an equal document.
C19_ScaffoldNamingStripped ==
    LastScaffold =>
      LET config == cfg[last.inst].config
      IN /\ ~last.ok <=> (~IsKebabCase(last.name) \/ ~HasLocalhostSection(config))
         /\ last.ok =>
              /\ ScaffoldBase(last.out)
                 = RStripSlash(RawField(config, "localhost", "base_url"))
                   \o RStripSlash(RawField(config, "localhost", "namespace_path"))
                   \o "/" \o last.name \o "#"
              /\ ScaffoldContext(last.out)[1] = Str("context.jsonld")
         /\ last.depth > 1 => last.out = last.prevDoc

\* C19 witness: under the configuration whose base_url ends with a slash the
\* scaffold of new-onto has been generated a second time.
C19_Witness ==
    /\ LastScaffold
    /\ last.ok
    /\ last.name = "new-onto"
    /\ last.depth = 2
    /\ EndsWith(RawField(cfg[last.inst].config, "localhost", "base_url"), "/")
    /\ ScaffoldBase(last.out) = L("new-onto")

\* C20: author-then-commit.  The scaffold of a kebab-case name is rejected by
\* validate_ontology_file with "@base IRI is not registered" while its @base is
\* not registered in the file the validator was built from; and once
\* register_ontology(name, <scaffold @base>, <production IRI>, <file>) has
\* succeeded, a validator built afterwards from the config file accepts it:
\* validate_ontology_file returns True and the scan of the scaffold is ok.
C20_AuthorThenCommit ==
    (last.op = "validate_ontology_file" /\ last.name /= "") =>
      LET base      == ScaffoldBase(last.doc)
          written   == Ontologies(validator.registry).val
          committed == /\ HasKey(written, last.name)
                       /\ Get(Get(written, last.name).m, "localhost_iri") = Str(base)
      IN /\ base \notin TableIris(validator.config)
            => /\ ~last.ret
               /\ \E k \in 1..Len(last.findings) :
                    last.findings[k].message
                    = "@base IRI is not registered in iri-config.yaml: " \o base
         /\ committed
            => /\ last.ok
               /\ last.ret
               /\ last.findings = << >>
               /\ ValidateNoFabricatedIris(validator.iri_config, last.doc).ok

\* the latest rebind_iri was given the output of a rebind_iri for the same
\* target, by the same instance with the same registry
LastRebindTwice ==
    /\ last.op = "rebind_iri"
    /\ last.depth = 2
    /\ last.target = last.prevTarget

\* C28: rebinding is idempotent.  Rebinding the output of a successful
\* rebind_iri again, for the same ontology and target, succeeds and returns
\* that output: a document already in the target environment comes back with
\* every string value unchanged.  Checked under SpecRebind.
C28_RebindIdempotent ==
    LastRebindTwice => (last.ok /\ last.out = last.doc)

\* the same for the string values that do not hold the name of the context
\* file
IdempotentOutsideContext ==
    LastRebindTwice =>
      /\ last.ok
      /\ Len(RebindOut) = Len(RebindIn)
      /\ \A i \in 1..Len(RebindIn) :
           ~Contains(RebindIn[i], ContextFile) => RebindOut[i] = RebindIn[i]

\* a JSON value with every string value blanked: its keys, array lengths and
\* order, nesting and non-string scalars
RECURSIVE Shape(_)
Shape(v) ==
    IF IsStr(v) THEN Str("")
    ELSE IF IsList(v) THEN List([i \in 1..Len(v.m) |-> Shape(v.m[i])])
    ELSE IF IsMap(v) THEN Map([i \in 1..Len(v.m) |-> <<v.m[i][1], Shape(v.m[i][2])>>])
    ELSE v

\* C26: the rewrite is content-oblivious and structure-preserving.  After a
\* successful rebind_iri every string value of the document, at any depth and
\* under any key (free text included), is the input string with every
\* replacement pair applied in table order, and the object keys, array lengths
\* and order, nesting and non-string scalars are those of the input.
\* Checked under SpecRebind.
C26_RewriteEveryString ==
    LastRebindOk =>
      /\ Shape(JsonLoads(last.out).val) = Shape(JsonLoads(last.doc).val)
      /\ Len(RebindOut) = Len(RebindIn)
      /\ \A i \in 1..Len(RebindIn) :
           RebindOut[i] = ReplaceMany(RebindIn[i],
                                      BuildReplacements(RebindConfig, last.target))

\* C26 witness: the document with a comment in free text and a version number
\* has been rebound to production, and the comment names the production IRI.
C26_Witness ==
    /\ LastRebindOk
    /\ last.doc = JsonText(DocLocalFrag)
    /\ last.target = "production"
    /\ \E i \in 1..Len(RebindOut) : StartsWith(RebindOut[i], "see " \o P("a"))
    /\ Get(JsonLoads(last.out).val.m, "@graph").m[1].m[3] = <<"version", Scalar("1")>>

-----------------------------------------------------------------------------
(* Properties of the validator, checked under SpecScaffold *)

LastValidate == last.op = "validate_ontology_file"

\* the findings of the latest call with the given severity
FindingsOf(severity) ==
    {k \in 1..Len(last.findings) : last.findings[k].severity = severity}

\* C21: validate_ontology_file returns True if and only if the file exists, is
\* valid JSON, carries an @base in its @context, that @base is registered, and
\* the fabrication scanner reports ok; an @context that does not include the
\* expected context URL only adds a warning and never changes the returned
\* value; every False result adds at least one ERROR finding.
C21_ValidateOntologyFile ==
    LastValidate =>
      LET payload == JsonLoads(last.doc)
          base    == ExtractBaseIri(payload.val)
          checked == /\ last.exists
                     /\ payload.ok
                     /\ base /= None
                     /\ base.s \in TableIris(validator.config)
          scanned == /\ ~ValidateNoFabricatedIrisRaises(validator.iri_config, last.doc)
                     /\ ValidateNoFabricatedIris(validator.iri_config, last.doc).ok
      IN /\ (last.ok /\ last.ret) <=> (checked /\ scanned)
         /\ (last.ok /\ ~last.ret) => FindingsOf("ERROR") /= {}
         /\ last.ret => FindingsOf("ERROR") = {}
         /\ FindingsOf("WARNING") /= {}
              => /\ checked
                 /\ ~ContextIncludesExpected(validator.config, payload.val)

\* C21 witness: a file whose @context does not import the context file has
\* been accepted with a warning.
C21_Witness ==
    /\ LastValidate
    /\ last.ok
    /\ last.ret
    /\ FindingsOf("WARNING") /= {}

\* C21 witness of the other side: a file has been rejected after the scan.
C21_WitnessRejected ==
    /\ LastValidate
    /\ last.ok
    /\ ~last.ret
    /\ last.doc = JsonText(DocNoImport)
    /\ FindingsOf("WARNING") /= {}

-----------------------------------------------------------------------------
(* Properties of the restricted config parser, checked under SpecParse *)

LastParse == last.op = "_load_simple_yaml_mapping"

\* a line that is neither blank nor a comment
IsContent(line) == ~(Strip(line) = "" \/ StartsWith(LStrip(line), "#"))

IndentOf(line) == Len(line) - Len(LStripBlank(line))

\* a line "key:" that opens a nested mapping
IsHeader(line) ==
    /\ Contains(line, ":")
    /\ Strip(SubSeq(line, Find(line, ":", 1) + 1, Len(line))) = ""

\* the indentation levels of the mappings open before line k: the top level,
\* and two columns past each header whose mapping no later line has closed
RECURSIVE OpenLevels(_, _)
OpenLevels(lines, k) ==
    IF k = 1 THEN {0}
    ELSE
      LET before == OpenLevels(lines, k - 1)
          line   == lines[k - 1]
      IN IF ~IsContent(line) THEN before
         ELSE {l \in before : l <= IndentOf(line)}
              \cup (IF IsHeader(line) THEN {IndentOf(line) + 2} ELSE {})

OddIndent(lines) ==
    \E k \in 1..Len(lines) : IsContent(lines[k]) /\ IndentOf(lines[k]) % 2 /= 0

NoSeparator(lines) ==
    \E k \in 1..Len(lines) : IsContent(lines[k]) /\ ~Contains(lines[k], ":")

NoOpenLevel(lines) ==
    \E k \in 1..Len(lines) :
      IsContent(lines[k]) /\ IndentOf(lines[k]) \notin OpenLevels(lines, k)

\* C22: the restricted config parser fails with a parse error whenever a
\* non-blank, non-comment line has an indentation that is not a multiple of
\* two, has no ":" separator, or is indented to a level that matches no
\* currently open mapping level (a de-indent to a level that was never opened
\* included); such a line is never attached to another mapping.
C22_ParseErrors ==
    LastParse =>
      ((OddIndent(last.text) \/ NoSeparator(last.text)
        \/ NoOpenLevel(last.text)) => ~last.ok)

\* the part of C22 the parser keeps: odd indentation and a missing separator
\* are parse errors
ParseErrorsRaised ==
    LastParse =>
      ((OddIndent(last.text) \/ NoSeparator(last.text)) => ~last.ok)

-----------------------------------------------------------------------------
(* Properties of the serializer, checked under SpecDump *)

\* the scalars of a mapping, at any depth
RECURSIVE ScalarsOf(_)
ScalarsOf(data) ==
    UNION {IF IsMap(data[i][2]) THEN ScalarsOf(data[i][2].m) ELSE {data[i][2].s} :
             i \in 1..Len(data)}

\* C23: dump is the structural inverse of parse: for every nested mapping M of
\* string keys to string scalars or nested mappings (values with whitespace,
\* ":", "#" or quote characters and empty mappings included), parse(dump(M))
\* equals M.
C23_DumpParseRoundTrip ==
    (LastParse /\ last.depth = 2) => (last.ok /\ last.root = last.data)

\* the round trip of the mappings whose scalars are not empty and hold no
\* quote character
RoundTripWithoutQuotes ==
    (/\ LastParse
     /\ last.depth = 2
     /\ \A s \in ScalarsOf(last.data) :
          s /= "" /\ ~Contains(s, "\"") /\ ~Contains(s, "'"))
    => (last.ok /\ last.root = last.data)

-----------------------------------------------------------------------------
(* Properties of the public methods together, checked under SpecFrame *)

ReadOnlyOps ==
    {"get_localhost_iri", "get_production_iri", "validate_iri_format", "rebind_iri",
     "validate_no_fabricated_iris", "new_ontology"}

\* C24: the registry is mutated only through register_ontology.  A call of
\* get_localhost_iri, get_production_iri, validate_iri_format, rebind_iri,
\* validate_no_fabricated_iris or new_ontology, whether it succeeds or fails,
\* leaves the registry in memory and the config file on disk as they were.
\* (The document the scanner and the rebinder are given is a text, passed by
\* value.)
C24_Frame ==
    [][last'.op \in ReadOnlyOps
         => /\ cfg' = cfg
            /\ file' = file]_vars

\* C24 witness: after a registration has changed the registry, a document has
\* been rebound.
C24_Witness ==
    /\ last.op = "rebind_iri"
    /\ last.ok
    /\ HasKey(Ontologies(cfg[1].config).val, "a-ext")
    /\ cfg[1].config = last.pre
    /\ file = last.preFile

-----------------------------------------------------------------------------
(* Properties of repeated rebinding, checked under SpecRepeat *)

\* the latest call repeats the call before it: same instance, registry,
\* document and target
LastRepeat == last.op = "rebind_iri" /\ last.depth > 1

IsRegisteredName(config, name) == HasKey(Ontologies(config).val, name)

\* C25: rebind_iri is a function of the document, the registry and the target.
\* Two calls with the same document, registry and target, each under the name
\* of a registered ontology, return the same text (or fail alike): the
\* ontology name passed is used for validation only.
C25_RebindPure ==
    (/\ LastRepeat
     /\ IsRegisteredName(cfg[last.inst].config, last.name)
     /\ IsRegisteredName(cfg[last.inst].config, last.prevName))
    => /\ last.ok = last.prevOk
       /\ last.out = last.prevOut

\* C25 witness: a document has been rebound a second time under the name of
\* another registered ontology, and the text returned differs from the input.
C25_Witness ==
    /\ LastRepeat
    /\ last.ok
    /\ last.prevOk
    /\ last.name = "a-ext"
    /\ last.prevName = "a"
    /\ last.out /= last.doc

-----------------------------------------------------------------------------
(* Properties of a validator over time, checked under SpecScaffold *)

\* the entry of a registered name
Entry(config, name) == Get(Ontologies(config).val, name)

\* the registry holds the scaffold of the latest validated file: its name,
\* with the @base of the file as localhost IRI
HoldsScaffold(config) ==
    /\ HasKey(Ontologies(config).val, last.name)
    /\ IsMap(Entry(config, last.name))
    /\ Get(Entry(config, last.name).m, "localhost_iri") = Str(ScaffoldBase(last.doc))

RejectedAsUnregistered ==
    /\ last.ok
    /\ ~last.ret
    /\ \E k \in 1..Len(last.findings) :
         last.findings[k].message
         = "@base IRI is not registered in iri-config.yaml: " \o ScaffoldBase(last.doc)

\* the validator was built before register_ontology registered the @base of
\* the file
StaleValidator ==
    /\ LastValidate
    /\ last.name /= ""
    /\ HoldsScaffold(cfg[1].config)
    /\ ~HoldsScaffold(validator.registry)

\* the validator was built after register_ontology registered the @base of
\* the file
FreshValidator ==
    /\ LastValidate
    /\ last.name /= ""
    /\ HoldsScaffold(validator.registry)

\* C30: a validator sees the registry as of its construction.  A document
\* whose @base was registered by register_ontology after the validator was
\* constructed is rejected by that validator as unregistered, and a validator
\* constructed after the registration accepts it.
C30_ValidatorSnapshot ==
    /\ StaleValidator => RejectedAsUnregistered
    /\ FreshValidator => (last.ok /\ last.ret)

\* the first half of C30 on its own
StaleValidatorRejects == StaleValidator => RejectedAsUnregistered

\* the second half of C30 where the registered @base holds no double quote
FreshValidatorAccepts ==
    (FreshValidator /\ ~Contains(ScaffoldBase(last.doc), "\""))
    => (last.ok /\ last.ret)

-----------------------------------------------------------------------------
(* Properties of the registry over time, checked under Spec *)

\* C29: registry entries are write-once.  Within one IRIConfig instance no
\* step removes a registered name (loaded or added) or changes its entry
\* (localhost_iri, production_iri, file), the set of registered bases only
\* grows, and a register_ontology call for a name that is already registered
\* fails and leaves the registry as it was.  Checked under Spec.
C29_WriteOnce ==
    [][/\ \A i \in Insts :
            cfg[i].live
            => /\ cfg'[i].live
               /\ \A n \in Names(cfg[i].config) :
                    /\ n \in Names(cfg'[i].config)
                    /\ Entry(cfg'[i].config, n) = Entry(cfg[i].config, n)
               /\ TableIris(cfg[i].config) \subseteq TableIris(cfg'[i].config)
       /\ (last'.op = "register_ontology"
           /\ last'.name \in Names(cfg[last'.inst].config))
          => /\ ~last'.ok
             /\ cfg' = cfg
             /\ file' = file]_vars

\* C29 witness: the name "a", loaded from the file, has been refused when
\* registered again with other IRIs, after the registry had grown, and its
\* entry is the one loaded.
C29_Witness ==
    /\ LastRegister
    /\ ~last.ok
    /\ last.name = "a"
    /\ last.localhost_iri = L("a2")
    /\ Cardinality(Names(cfg[last.inst].config)) >= 2
    /\ GetLocalhostIri(cfg[last.inst].config, "a").val = L("a")

=============================================================================
